---- MODULE Spec2Model ----
(***************************************************************************)
(* Governance-gated adjustment and serving pipeline of eb-examples         *)
(* (eb_golden_v1 demo): governance composition, RAL and serving, as the    *)
(* scripts under src/scripts implement them.                               *)
(*                                                                         *)
(* Representation.                                                         *)
(*  - A Python str is a sequence of one-character strings, so that strip,  *)
(*    upper, substring search and split are computed, not assumed.         *)
(*  - A table cell is <<v>> (a value) or <<>> (None / NaN / null).         *)
(*  - A DataFrame / parquet artifact is a record                           *)
(*      [exists, columns (ordered), rows (ordered, each a function from    *)
(*       column name to cell)].                                            *)
(*  - A float metric is an integer count of 1e-6 units (0.70 = 700000);    *)
(*    a mean is kept as an exact fraction [num, den].                      *)
(***************************************************************************)
EXTENDS Integers, Sequences, FiniteSets, TLC

VARIABLES
    fcst,      \* <base>/panel_point_forecast_v1.parquet
    cwsl,      \* <base>/diagnostics/cwsl_v1.parquet
    hr,        \* <base>/diagnostics/hr_tau_v1.parquet
    nslud,     \* <base>/diagnostics/nsl_ud_v1.parquet
    fas,       \* <base>/diagnostics/fas_v1.parquet
    dqc,       \* <base>/diagnostics/dqc_v1.parquet
    fpc,       \* <base>/diagnostics/fpc_v1.parquet
    gov,       \* <base>/governance/governance_v1.parquet
    policy,    \* <base>/governance/governance_v1_policy.json
    ral,       \* <base>/ral/panel_point_forecast_v1_ral.parquet
    trace,     \* <base>/ral/ral_trace_v1.parquet
    served,    \* <base>/serving/served_forecast_v1.parquet
    manifest,  \* <base>/serving/served_forecast_v1_manifest.json
    last,      \* the step that ran last, its arguments and how it exited
    budget,    \* step executions left in this exploration
    demand,    \* <base>/raw_demand.csv.gz and <base>/panel_demand_v1.parquet
    run        \* the pipeline runner: its options, position and outcome

vars == <<fcst, cwsl, hr, nslud, fas, dqc, fpc, gov, policy, ral, trace,
          served, manifest, last, budget, demand, run>>

inputs == <<cwsl, hr, nslud, fas, dqc, fpc>>

-----------------------------------------------------------------------------
(* Cells *)

Null == <<>>

Some(v) == <<v>>

IsNull(c) == c = <<>>

notna(c) == c # <<>>

Val(c) == c[1]

-----------------------------------------------------------------------------
(* Python str as a sequence of characters *)

LowerChars == <<"a","b","c","d","e","f","g","h","i","j","k","l","m",
                "n","o","p","q","r","s","t","u","v","w","x","y","z">>

UpperChars == <<"A","B","C","D","E","F","G","H","I","J","K","L","M",
                "N","O","P","Q","R","S","T","U","V","W","X","Y","Z">>

\* Code-point order of the characters the model uses (ASCII order).
CharOrder == <<" ", "0", "1", "2", ":">> \o UpperChars \o <<"_">> \o LowerChars

Ord(c) == CHOOSE i \in 1..Len(CharOrder) : CharOrder[i] = c

MinOf(S) == CHOOSE m \in S : \A k \in S : m <= k

MaxOf(S) == CHOOSE m \in S : \A k \in S : m >= k

Range(s) == {s[i] : i \in 1..Len(s)}

\* str.__lt__ : lexicographic by code point.
StrLess(a, b) ==
    LET n == IF Len(a) < Len(b) THEN Len(a) ELSE Len(b)
        diff == {i \in 1..n : a[i] # b[i]}
    IN  IF diff = {} THEN Len(a) < Len(b)
        ELSE Ord(a[MinOf(diff)]) < Ord(b[MinOf(diff)])

\* str.upper()
upper(s) ==
    [i \in 1..Len(s) |->
        IF \E k \in 1..Len(LowerChars) : LowerChars[k] = s[i]
        THEN UpperChars[CHOOSE k \in 1..Len(LowerChars) : LowerChars[k] = s[i]]
        ELSE s[i]]

\* str.strip()
strip(s) ==
    LET keep == {i \in 1..Len(s) : s[i] # " "}
    IN  IF keep = {} THEN <<>> ELSE SubSeq(s, MinOf(keep), MaxOf(keep))

\* tok in s
contains(tok, s) ==
    \E i \in 1..(Len(s) - Len(tok) + 1) : SubSeq(s, i, i + Len(tok) - 1) = tok

Delim == <<":", ":">>

\* str.split("::", 1)
split1(s) ==
    LET at == {i \in 1..(Len(s) - 1) : SubSeq(s, i, i + 1) = Delim}
    IN  IF at = {} THEN <<s>>
        ELSE <<SubSeq(s, 1, MinOf(at) - 1), SubSeq(s, MinOf(at) + 2, Len(s))>>

-----------------------------------------------------------------------------
(* Entity key codec *)

_make_entity_id(site_id, forecast_entity_id) ==
    site_id \o Delim \o forecast_entity_id

\* govern: lenient, a key without "::" is passed through as the entity scope
fe_from_entity_id(entity_id) ==
    LET parts == split1(entity_id)
    IN  IF Len(parts) = 2 THEN parts[2] ELSE entity_id

\* ral / serve: a key without "::" raises ValueError
KeyOk(entity_id) == Len(split1(entity_id)) = 2

_parse_forecast_entity_id(entity_id) == split1(entity_id)[2]

-----------------------------------------------------------------------------
(* DataFrames *)

Missing == [exists |-> FALSE, columns |-> <<>>, rows |-> <<>>]

Frame(cols, rws) == [exists |-> TRUE, columns |-> cols \o <<>>, rows |-> rws \o <<>>]

HasCol(df, c) == c \in Range(df.columns)

\* Series.get / dict.get with a default of None
Get(row, c) == IF c \in DOMAIN row THEN row[c] ELSE Null

\* Faulty variant of Where: the filter is lost, every row is returned
Where_unfiltered(df, c, v) == df.rows

\* df[df[c] == v]
Where(df, c, v) ==
    LET Test(r) == r[c] = v
    IN  SelectSeq(df.rows, Test)

RECURSIVE Flatten(_)
Flatten(ss) == IF ss = <<>> THEN <<>> ELSE Head(ss) \o Flatten(Tail(ss))

\* Faulty variant of SortBy: an unstable sort, equal elements come out in the
\* opposite order
SortBy_ties_reversed(seq, less) ==
    LET s == seq \o <<>>
        pos == [i \in 1..Len(s) |->
                   1 + Cardinality({j \in 1..Len(s) :
                           \/ less[j][i]
                           \/ (~less[i][j] /\ j > i)})] \o <<>>
    IN  [k \in 1..Len(s) |-> s[CHOOSE i \in 1..Len(s) : pos[i] = k]] \o <<>>

\* Stable sort (kind="mergesort") of a sequence by a strict weak order, given
\* as the table less[i][j] = "element i sorts before element j": element i
\* lands after every element that is smaller, and after every equal element
\* that came before it.
SortBy(seq, less) ==
    LET s == seq \o <<>>
        pos == [i \in 1..Len(s) |->
                   1 + Cardinality({j \in 1..Len(s) :
                           \/ less[j][i]
                           \/ (~less[i][j] /\ j < i)})] \o <<>>
    IN  [k \in 1..Len(s) |-> s[CHOOSE i \in 1..Len(s) : pos[i] = k]] \o <<>>

\* df[[c1, c2, ...]]
Project(df, cols) ==
    Frame(cols, [i \in 1..Len(df.rows) |-> [c \in Range(cols) |-> df.rows[i][c]]])

\* df.rename(columns={old: new})
Rename(df, old, new) ==
    LET nm(c) == IF c = old THEN new ELSE c
    IN  Frame([i \in 1..Len(df.columns) |-> nm(df.columns[i])],
              [i \in 1..Len(df.rows) |->
                  [c \in {nm(x) : x \in Range(df.columns)} |->
                      IF c = new /\ old \in DOMAIN df.rows[i]
                      THEN df.rows[i][old] ELSE df.rows[i][c]]])

\* Faulty variant of UniqueOn: no cardinality validation
UniqueOn_unchecked(rws, keycols) == TRUE

\* The keys of df[c] occur at most once (merge validate=...).
UniqueOn(rws, keycols) ==
    \A i, j \in 1..Len(rws) :
        (\A c \in keycols : rws[i][c] = rws[j][c]) => i = j

\* left.merge(right, on=keys, how=how, suffixes=(ls, rs)), how in {"left","inner"}.
\* Columns: the left ones, then the right non-key ones; a non-key name on both
\* sides takes its side's suffix.  Rows: in left order, each left row once per
\* matching right row (in right order); with how="left" an unmatched left row
\* is kept with the right columns null.
Merge(left, right, keys, how, ls, rs) ==
    LET IsKey(c) == c \in keys
        NotKey(c) == c \notin keys
        lcols == left.columns
        rcols == SelectSeq(right.columns, NotKey)
        overlap == {c \in Range(lcols) : NotKey(c)} \cap Range(rcols)
        LName(c) == IF c \in overlap THEN c \o ls ELSE c
        RName(c) == IF c \in overlap THEN c \o rs ELSE c
        cols == [i \in 1..Len(lcols) |-> LName(lcols[i])]
                \o [i \in 1..Len(rcols) |-> RName(rcols[i])]
        lsrc == [c \in {LName(lc) : lc \in Range(lcols)} |->
                    CHOOSE lc \in Range(lcols) : LName(lc) = c]
        rsrc == [c \in {RName(rc) : rc \in Range(rcols)} |->
                    CHOOSE rc \in Range(rcols) : RName(rc) = c]
        Join(l, r) == [c \in Range(cols) |->
                          IF c \in DOMAIN lsrc THEN l[lsrc[c]] ELSE r[rsrc[c]]]
        NullJoin(l) == [c \in Range(cols) |->
                          IF c \in DOMAIN lsrc THEN l[lsrc[c]] ELSE Null]
        Matches(l) == LET Test(r) == \A k \in keys : r[k] = l[k]
                      IN  SelectSeq(right.rows, Test)
        RowsFor(l) == LET ms == Matches(l)
                      IN  IF ms = <<>>
                          THEN (IF how = "left" THEN <<NullJoin(l)>> ELSE <<>>)
                          ELSE [i \in 1..Len(ms) |-> Join(l, ms[i])]
    IN  Frame(cols, Flatten([i \in 1..Len(left.rows) |-> RowsFor(left.rows[i])]))

RECURSIVE GCD(_, _)
GCD(a, b) == IF b = 0 THEN a ELSE GCD(b, a % b)

RECURSIVE SumSeq(_)
SumSeq(s) == IF s = <<>> THEN 0 ELSE Head(s) + SumSeq(Tail(s))

\* Series.mean(): the mean of the non-null values, null when there is none.
\* The mean is the exact fraction num/den in lowest terms.
Mean(cells) ==
    LET vals == SelectSeq(cells, notna)
        nums == [i \in 1..Len(vals) |-> Val(vals[i])]
        g == GCD(SumSeq(nums), Len(vals))
    IN  IF vals = <<>> THEN Null
        ELSE Some([num |-> SumSeq(nums) \div g, den |-> Len(vals) \div g])

\* df.groupby(key, as_index=False)[valcols].mean(): one row per distinct key,
\* keys ascending.
GroupMean(df, key, valcols) ==
    LET ks == {df.rows[i][key] : i \in 1..Len(df.rows)}
        KLess(a, b) == StrLess(Val(a), Val(b))
        sorted == [n \in 1..Cardinality(ks) |->
                      CHOOSE k \in ks :
                          Cardinality({x \in ks : KLess(x, k)}) = n - 1]
        Row(k) == LET g == Where(df, key, k)
                  IN  [c \in {key} \cup Range(valcols) |->
                          IF c = key THEN k
                          ELSE Mean([i \in 1..Len(g) |-> g[i][c]])]
    IN  Frame(<<key>> \o valcols, [i \in 1..Len(sorted) |-> Row(sorted[i])])

-----------------------------------------------------------------------------
(* govern_demo_eb_golden_v1.py *)

\* DemoGovernancePolicyV1 defaults (hr_tau and hr_tau_min in 1e-6 units)
PolicyVersion == "v1"

PolicyHrTau == 2000000

PolicyHrTauMin == 700000

PolicyAllowFallbackDefault == FALSE

PolicyAllowedRalModes == <<"identity">>

\* _pick_col(df, candidates): the first candidate that is in df.columns, else
\* None.  cols is the set of df's column names.
_pick_col(cols, candidates) ==
    LET hit == {i \in 1..Len(candidates) : candidates[i] \in cols}
    IN  IF hit = {} THEN Null ELSE Some(candidates[MinOf(hit)])

\* Faulty variant of _normalize_class: the None check is lost, str(None) is "None"
_normalize_class_str_none(x) ==
    IF IsNull(x) THEN <<"N","O","N","E">> ELSE upper(strip(Val(x)))

\* _normalize_class: None -> "", else str(x).strip().upper()
_normalize_class(x) == IF IsNull(x) THEN <<>> ELSE upper(strip(Val(x)))

bad_tokens ==
    { <<"B","L","O","C","K">>,
      <<"F","A","I","L">>,
      <<"F","A","I","L","E","D">>,
      <<"I","N","C","O","M","P","A","T","I","B","L","E">>,
      <<"D","E","N","Y">>,
      <<"N","O">> }

DqcClassCandidates == <<"dqc_class", "class", "status", "dqc">>

FpcClassCandidates == <<"fpc_class", "class", "status", "fpc">>

FasClassCandidates == <<"fas_class", "class", "status", "fas">>

Reason(msg, arg) == [msg |-> msg, arg |-> arg]

\* The label _is_structurally_ok reads from one row (a dict) of a table:
\* pd.DataFrame([row]) has the row's keys as columns.
RowClass(row, candidates) ==
    LET col == _pick_col(DOMAIN row, candidates)
    IN  IF notna(col) THEN _normalize_class(Get(row, Val(col))) ELSE <<>>

\* Faulty variant of IsBad: whole-label (token) match instead of substring match
IsBad_token(class) == class # <<>> /\ class \in bad_tokens

IsBad(class) == class # <<>> /\ \E tok \in bad_tokens : contains(tok, class)

\* Faulty variant of _is_structurally_ok: the absence notices come first
_is_structurally_ok_absence_first(dqc_row, fpc_row) ==
    LET dqc_class == RowClass(dqc_row, DqcClassCandidates)
        fpc_class == RowClass(fpc_row, FpcClassCandidates)
    IN  [ok |-> ~IsBad(dqc_class) /\ ~IsBad(fpc_class),
         reasons |->
            (IF dqc_class = <<>>
             THEN <<Reason("DQC class not found in artifact (proceeding conservatively).", <<>>)>>
             ELSE <<>>)
            \o (IF fpc_class = <<>>
                THEN <<Reason("FPC class not found in artifact (proceeding conservatively).", <<>>)>>
                ELSE <<>>)
            \o (IF IsBad(dqc_class)
                THEN <<Reason("DQC not admissible: ", dqc_class)>> ELSE <<>>)
            \o (IF IsBad(fpc_class)
                THEN <<Reason("FPC not compatible: ", fpc_class)>> ELSE <<>>)]

\* _is_structurally_ok(dqc_row, fpc_row) -> [ok, reasons]
_is_structurally_ok(dqc_row, fpc_row) ==
    LET dqc_class == RowClass(dqc_row, DqcClassCandidates)
        fpc_class == RowClass(fpc_row, FpcClassCandidates)
    IN  [ok |-> ~IsBad(dqc_class) /\ ~IsBad(fpc_class),
         reasons |->
            (IF IsBad(dqc_class)
             THEN <<Reason("DQC not admissible: ", dqc_class)>> ELSE <<>>)
            \o (IF IsBad(fpc_class)
                THEN <<Reason("FPC not compatible: ", fpc_class)>> ELSE <<>>)
            \o (IF dqc_class = <<>>
                THEN <<Reason("DQC class not found in artifact (proceeding conservatively).", <<>>)>>
                ELSE <<>>)
            \o (IF fpc_class = <<>>
                THEN <<Reason("FPC class not found in artifact (proceeding conservatively).", <<>>)>>
                ELSE <<>>)]

\* --hr-tau-min values tried on the command line (1e-6 units)
HrTauMinOverrides == {650000}

\* The command line of the governance step.
GovArgs == [hr_tau_min : {Null} \cup {Some(v) : v \in HrTauMinOverrides},
            allow_fallback : BOOLEAN]

\* Faulty variant of EffHrTauMin: the command-line override is ignored
EffHrTauMin_default(args) == PolicyHrTauMin

EffHrTauMin(args) ==
    IF notna(args.hr_tau_min) THEN Val(args.hr_tau_min) ELSE PolicyHrTauMin

EffAllowFallback(args) == args.allow_fallback \/ PolicyAllowFallbackDefault

\* Faulty variant of metric_ok: strict comparison
metric_ok_strict(hr_val_f, hr_tau_min) ==
    notna(hr_val_f) /\ Val(hr_val_f).num > hr_tau_min * Val(hr_val_f).den

\* hr_val_f >= hr_tau_min on the exact mean num/den
metric_ok(hr_val_f, hr_tau_min) ==
    notna(hr_val_f) /\ Val(hr_val_f).num >= hr_tau_min * Val(hr_val_f).den

\* f"{x:.6f}" of a fraction: the nearest multiple of 1e-6
Fmt6(q) == (2 * q.num + q.den) \div (2 * q.den)

cwsl_val_col == _pick_col(Range(cwsl.columns), <<"cwsl", "cwsl_mean">>)

\* The first failing check of main(), "ok" when none fails before the loop.
GovPrecheck ==
    IF \E a \in {cwsl, hr, nslud, fas, dqc, fpc} : ~a.exists
        THEN "FileNotFoundError"
    ELSE IF ~HasCol(cwsl, "entity_id") \/ IsNull(cwsl_val_col)
        THEN "ValueError"
    ELSE IF ~HasCol(hr, "entity_id") \/ ~HasCol(hr, "hr_tau")
        THEN "ValueError"
    ELSE IF ~HasCol(nslud, "entity_id") \/ ~HasCol(nslud, "nsl") \/ ~HasCol(nslud, "ud")
        THEN "ValueError"
    ELSE IF ~HasCol(fas, "forecast_entity_id")
            /\ IsNull(_pick_col(Range(fas.columns),
                                <<"forecast_entity_id", "FORECAST_ENTITY_ID", "entity_id", "id">>))
        THEN "ValueError"
    ELSE IF ~HasCol(dqc, "forecast_entity_id") \/ ~HasCol(fpc, "forecast_entity_id")
        THEN "ValueError"
    ELSE "ok"

\* Faulty variant of GovM: left joins from the CWSL table, a key missing from
\* the other metric tables is kept
GovM_left ==
    LET c == Rename(Project(cwsl, <<"entity_id", Val(cwsl_val_col)>>),
                    Val(cwsl_val_col), "cwsl")
        j == Merge(Merge(c, Project(hr, <<"entity_id", "hr_tau">>),
                         {"entity_id"}, "left", "_x", "_y"),
                   Project(nslud, <<"entity_id", "nsl", "ud">>),
                   {"entity_id"}, "left", "_x", "_y")
    IN  Frame(j.columns \o <<"forecast_entity_id">>,
              [i \in 1..Len(j.rows) |->
                  [col \in Range(j.columns) \cup {"forecast_entity_id"} |->
                      IF col = "forecast_entity_id"
                      THEN Some(fe_from_entity_id(Val(j.rows[i]["entity_id"])))
                      ELSE j.rows[i][col]]])

\* m: the three metric tables inner-joined on entity_id, with the entity scope
GovM ==
    LET c == Rename(Project(cwsl, <<"entity_id", Val(cwsl_val_col)>>),
                    Val(cwsl_val_col), "cwsl")
        j == Merge(Merge(c, Project(hr, <<"entity_id", "hr_tau">>),
                         {"entity_id"}, "inner", "_x", "_y"),
                   Project(nslud, <<"entity_id", "nsl", "ud">>),
                   {"entity_id"}, "inner", "_x", "_y")
    IN  Frame(j.columns \o <<"forecast_entity_id">>,
              [i \in 1..Len(j.rows) |->
                  [col \in Range(j.columns) \cup {"forecast_entity_id"} |->
                      IF col = "forecast_entity_id"
                      THEN Some(fe_from_entity_id(Val(j.rows[i]["entity_id"])))
                      ELSE j.rows[i][col]]])

m_agg == GroupMean(GovM, "forecast_entity_id", <<"cwsl", "hr_tau", "nsl", "ud">>)

\* fas with its key column normalised to forecast_entity_id
FasKeyed ==
    IF HasCol(fas, "forecast_entity_id") THEN fas
    ELSE Rename(fas,
                Val(_pick_col(Range(fas.columns),
                              <<"forecast_entity_id", "FORECAST_ENTITY_ID", "entity_id", "id">>)),
                "forecast_entity_id")

\* Faulty variant of GovMerged: inner joins toward the structural tables
GovMerged_inner ==
    Merge(Merge(Merge(m_agg, dqc, {"forecast_entity_id"}, "inner", "_x", "_y"),
                fpc, {"forecast_entity_id"}, "inner", "", "_fpc"),
          FasKeyed, {"forecast_entity_id"}, "inner", "", "_fas")

\* merged: all context at forecast_entity_id level
GovMerged ==
    Merge(Merge(Merge(m_agg, dqc, {"forecast_entity_id"}, "left", "_x", "_y"),
                fpc, {"forecast_entity_id"}, "left", "", "_fpc"),
          FasKeyed, {"forecast_entity_id"}, "left", "", "_fas")

\* Faulty variant of structural_of: a missing row is reported but does not close
structural_of_open(dqc_row, fpc_row) ==
    IF dqc_row = <<>> \/ fpc_row = <<>>
    THEN [ok |-> TRUE,
          reasons |->
            (IF dqc_row = <<>>
             THEN <<Reason("Missing DQC row for this forecast_entity_id.", <<>>)>>
             ELSE <<>>)
            \o (IF fpc_row = <<>>
                THEN <<Reason("Missing FPC row for this forecast_entity_id.", <<>>)>>
                ELSE <<>>)]
    ELSE _is_structurally_ok(dqc_row[1], fpc_row[1])

\* Structural checks require presence of DQC/FPC rows: dqc_row and fpc_row are
\* the rows of the tables for the entity (possibly none)
structural_of(dqc_row, fpc_row) ==
    IF dqc_row = <<>> \/ fpc_row = <<>>
    THEN [ok |-> FALSE,
          reasons |->
            (IF dqc_row = <<>>
             THEN <<Reason("Missing DQC row for this forecast_entity_id.", <<>>)>>
             ELSE <<>>)
            \o (IF fpc_row = <<>>
                THEN <<Reason("Missing FPC row for this forecast_entity_id.", <<>>)>>
                ELSE <<>>)]
    ELSE _is_structurally_ok(dqc_row[1], fpc_row[1])

\* Faulty variant of allow_adjustment_of: "or" for "and"
allow_adjustment_of_or(structural_ok, m_ok) == structural_ok \/ m_ok

\* allow_adjustment = bool(structural_ok and metric_ok)
allow_adjustment_of(structural_ok, m_ok) == structural_ok /\ m_ok

\* Faulty variant of threshold_reason: a missing metric is reported as 0.0
threshold_reason_zero(hr_val_f, hr_tau_min) ==
    IF IsNull(hr_val_f)
    THEN Reason("HR@tau= vs threshold ", <<0, hr_tau_min>>)
    ELSE Reason("HR@tau= vs threshold ", <<Fmt6(Val(hr_val_f)), hr_tau_min>>)

\* the threshold reason of the trail
threshold_reason(hr_val_f, hr_tau_min) ==
    IF IsNull(hr_val_f)
    THEN Reason("Missing HR@tau; adjustment not permitted under conservative policy.", <<>>)
    ELSE Reason("HR@tau= vs threshold ", <<Fmt6(Val(hr_val_f)), hr_tau_min>>)

\* the terminal summary of the trail
summary_reason(allow_adjustment) ==
    IF allow_adjustment
    THEN Reason("Adjustment permitted (structural OK and HR threshold met).", <<>>)
    ELSE Reason("Adjustment NOT permitted (conservative policy).", <<>>)

\* One pass of the loop over merged.iterrows(): the decision row of `row`.
GovDecision(row, args) ==
    LET fe_id == row["forecast_entity_id"]
        hr_val_f == Get(row, "hr_tau")
        hr_tau_min == EffHrTauMin(args)
        structural == structural_of(Where(dqc, "forecast_entity_id", fe_id),
                                    Where(fpc, "forecast_entity_id", fe_id))
        allow_adjustment ==
            allow_adjustment_of(structural.ok, metric_ok(hr_val_f, hr_tau_min))
        reasons == structural.reasons
                   \o <<threshold_reason(hr_val_f, hr_tau_min)>>
                   \o <<summary_reason(allow_adjustment)>>
        ClassOf(cands, tbl) ==
            LET col == _pick_col(Range(tbl.columns), cands)
            IN  IF notna(col) THEN Get(row, Val(col)) ELSE Null
    IN  [forecast_entity_id |-> fe_id,
         allow_adjustment   |-> Some(allow_adjustment),
         allow_fallback     |-> Some(EffAllowFallback(args)),
         allowed_ral_modes  |-> Some(PolicyAllowedRalModes),
         policy_version     |-> Some(PolicyVersion),
         hr_tau             |-> hr_val_f,
         cwsl               |-> Get(row, "cwsl"),
         nsl                |-> Get(row, "nsl"),
         ud                 |-> Get(row, "ud"),
         dqc_class          |-> ClassOf(DqcClassCandidates, dqc),
         fpc_class          |-> ClassOf(FpcClassCandidates, fpc),
         fas_class          |-> ClassOf(FasClassCandidates, FasKeyed),
         reasons_json       |-> Some(reasons)]

GovColumns == <<"forecast_entity_id", "allow_adjustment", "allow_fallback",
                "allowed_ral_modes", "policy_version", "hr_tau", "cwsl", "nsl",
                "ud", "dqc_class", "fpc_class", "fas_class", "reasons_json">>

FeLess(a, b) == StrLess(Val(a["forecast_entity_id"]), Val(b["forecast_entity_id"]))

\* by=["forecast_entity_id"]
FeOrder(s) == [i \in DOMAIN s |-> [j \in DOMAIN s |-> FeLess(s[i], s[j])]]

\* out_df: the decision rows, stably sorted by forecast_entity_id
GovOut(args) ==
    LET merged == GovMerged
        out_rows == [i \in 1..Len(merged.rows) |-> GovDecision(merged.rows[i], args)] \o <<>>
    IN  Frame(GovColumns, SortBy(out_rows, FeOrder(out_rows)))

\* policy_payload
PolicyPayload(args) ==
    [exists |-> TRUE,
     version |-> PolicyVersion,
     hr_tau |-> PolicyHrTau,
     hr_tau_min |-> EffHrTauMin(args),
     allow_fallback_default |-> EffAllowFallback(args),
     allowed_ral_modes_if_permitted |-> PolicyAllowedRalModes]

NoPolicy ==
    [exists |-> FALSE, version |-> "", hr_tau |-> 0, hr_tau_min |-> 0,
     allow_fallback_default |-> FALSE, allowed_ral_modes_if_permitted |-> <<>>]

\* How main() exits: a failed precheck, or KeyError from sort_values on the
\* column-less frame that pd.DataFrame([]) is when merged has no row.
GovResult ==
    IF GovPrecheck # "ok" THEN GovPrecheck
    ELSE IF GovMerged.rows = <<>> THEN "KeyError"
    ELSE "ok"

\* Faulty variant of GovernWrites: the policy descriptor is written as soon as
\* the effective values are known, before the inputs are loaded
GovernWrites_descriptor_first(args) ==
    LET result == GovResult
    IN  /\ last' = [step |-> "govern", result |-> result]
        /\ policy' = PolicyPayload(args)
        /\ IF result = "ok" THEN gov' = GovOut(args) ELSE UNCHANGED gov

\* what one run of main() leaves behind: its exit status and, on success, the
\* decision table and the policy descriptor
GovernWrites(args) ==
    LET result == GovResult
    IN  /\ last' = [step |-> "govern", result |-> result]
        /\ IF result = "ok"
           THEN /\ gov' = GovOut(args)
                /\ policy' = PolicyPayload(args)
           ELSE UNCHANGED <<gov, policy>>

Govern(args) ==
    /\ budget > 0
    /\ budget' = budget - 1
    /\ GovernWrites(args)
    /\ UNCHANGED <<fcst, inputs, ral, trace, served, manifest, demand, run>>

-----------------------------------------------------------------------------
(* ral_demo_eb_golden_v1.py and serve_demo_eb_golden_v1.py *)

\* Faulty variant of PermissionOf: .get(fe, True), permission defaults open
PermissionOf_open(g, fe) ==
    LET hit == {i \in 1..Len(g.rows) : g.rows[i]["forecast_entity_id"] = Some(fe)}
        cell == g.rows[MaxOf(hit)]["allow_adjustment"]
    IN  IF hit = {} THEN TRUE
        ELSE IF IsNull(cell) THEN TRUE ELSE Val(cell)

\* gov.set_index("forecast_entity_id")["allow_adjustment"].map(bool).to_dict()
\* followed by .get(fe, False): the last row of a key wins, bool(NaN) is True,
\* a key without a row gives False.
PermissionOf(g, fe) ==
    LET hit == {i \in 1..Len(g.rows) : g.rows[i]["forecast_entity_id"] = Some(fe)}
        cell == g.rows[MaxOf(hit)]["allow_adjustment"]
    IN  IF hit = {} THEN FALSE
        ELSE IF IsNull(cell) THEN TRUE ELSE Val(cell)

\* Faulty variant of ral_mode_of: the mode is always the function's name
ral_mode_of_always(ok) == "identity"

\* "identity" if ok else "none"
ral_mode_of(ok) == IF ok THEN "identity" ELSE "none"

\* the adjusted value of a row: identity RAL, whatever the permission
y_pred_ral_of(row, allow) == row["y_pred"]

RalResult ==
    IF ~fcst.exists \/ ~gov.exists THEN "FileNotFoundError"
    ELSE IF \E c \in {"entity_id", "interval_start", "y_pred"} : ~HasCol(fcst, c)
        THEN "ValueError"
    ELSE IF \E c \in {"forecast_entity_id", "allow_adjustment"} : ~HasCol(gov, c)
        THEN "ValueError"
    ELSE IF \E i \in 1..Len(fcst.rows) : ~KeyOk(Val(fcst.rows[i]["entity_id"]))
        THEN "ValueError"
    ELSE "ok"

RalAdded == <<"forecast_entity_id", "allow_adjustment", "y_pred_ral",
              "ral_applied", "ral_mode">>

RalRow(row) ==
    LET fe == _parse_forecast_entity_id(Val(row["entity_id"]))
        allow == PermissionOf(gov, fe)
    IN  [c \in DOMAIN row \cup Range(RalAdded) |->
            CASE c = "forecast_entity_id" -> Some(fe)
              [] c = "allow_adjustment"   -> Some(allow)
              [] c = "y_pred_ral"         -> y_pred_ral_of(row, allow)
              [] c = "ral_applied"        -> Some(allow)
              [] c = "ral_mode"           -> Some(ral_mode_of(allow))
              [] OTHER                    -> row[c]]

RalOut ==
    Frame(fcst.columns \o SelectSeq(RalAdded, LAMBDA c : ~HasCol(fcst, c)),
          [i \in 1..Len(fcst.rows) |-> RalRow(fcst.rows[i])])

TraceCols == <<"entity_id", "forecast_entity_id", "ral_applied", "ral_mode">>

\* Faulty variant of DropDuplicates: every row is kept
DropDuplicates_unchanged(rws) == rws

\* drop_duplicates(): the first occurrence of each row is kept
DropDuplicates(rws) ==
    LET keep == {i \in 1..Len(rws) : \A j \in 1..(i - 1) : rws[j] # rws[i]}
        Kept(i) == i \in keep
        idx == SelectSeq([i \in 1..Len(rws) |-> i], Kept)
    IN  [k \in 1..Len(idx) |-> rws[idx[k]]]

TraceLess(a, b) ==
    \/ StrLess(Val(a["forecast_entity_id"]), Val(b["forecast_entity_id"]))
    \/ /\ a["forecast_entity_id"] = b["forecast_entity_id"]
       /\ StrLess(Val(a["entity_id"]), Val(b["entity_id"]))

\* by=["forecast_entity_id", "entity_id"]
TraceOrder(s) == [i \in DOMAIN s |-> [j \in DOMAIN s |-> TraceLess(s[i], s[j])]]

RalTrace(out) ==
    LET rws == DropDuplicates(Project(out, TraceCols).rows) \o <<>>
    IN  Frame(TraceCols, SortBy(rws, TraceOrder(rws)))

\* what one run of main() leaves behind: its exit status and, on success, the
\* adjusted panel and its trace
RalWrites ==
    LET result == RalResult
    IN  /\ last' = [step |-> "ral", result |-> result]
        /\ IF result = "ok"
           THEN /\ ral' = RalOut
                /\ trace' = RalTrace(ral')
           ELSE UNCHANGED <<ral, trace>>

Ral ==
    /\ budget > 0
    /\ budget' = budget - 1
    /\ RalWrites
    /\ UNCHANGED <<fcst, inputs, gov, policy, served, manifest, demand, run>>

ServeKeys == {"entity_id", "interval_start"}

RalServeCols == <<"entity_id", "interval_start", "y_pred_ral", "ral_mode", "ral_applied">>

ServeResult ==
    IF ~fcst.exists \/ ~ral.exists \/ ~gov.exists THEN "FileNotFoundError"
    ELSE IF \E c \in {"entity_id", "interval_start", "y_pred"} : ~HasCol(fcst, c)
        THEN "ValueError"
    ELSE IF \E c \in Range(RalServeCols) : ~HasCol(ral, c)
        THEN "ValueError"
    ELSE IF \E c \in {"forecast_entity_id", "allow_adjustment"} : ~HasCol(gov, c)
        THEN "ValueError"
    ELSE IF ~UniqueOn(fcst.rows, ServeKeys) \/ ~UniqueOn(ral.rows, ServeKeys)
        THEN "MergeError"
    ELSE IF \E i \in 1..Len(fcst.rows) : ~KeyOk(Val(fcst.rows[i]["entity_id"]))
        THEN "ValueError"
    ELSE "ok"

\* Faulty variant of use_ral: the presence test is lost
use_ral_allowed_only(allow_adjustment, y_pred_ral) == allow_adjustment = TRUE

\* Serve RAL only when (a) allowed and (b) present
use_ral(allow_adjustment, y_pred_ral) == allow_adjustment = TRUE /\ notna(y_pred_ral)

ServedCols == <<"entity_id", "forecast_entity_id", "interval_start", "y_served",
                "served_source", "y_pred", "y_pred_ral", "ral_mode",
                "ral_applied", "allow_adjustment">>

ServeMerged == Merge(fcst, Project(ral, RalServeCols), ServeKeys, "left", "_x", "_y")

ServedRow(row) ==
    LET fe == _parse_forecast_entity_id(Val(row["entity_id"]))
        allow == PermissionOf(gov, fe)
        use == use_ral(allow, row["y_pred_ral"])
    IN  [c \in Range(ServedCols) |->
            CASE c = "forecast_entity_id" -> Some(fe)
              [] c = "allow_adjustment"   -> Some(allow)
              [] c = "y_served"           -> IF use THEN row["y_pred_ral"] ELSE row["y_pred"]
              [] c = "served_source"      -> Some(IF use THEN "ral" ELSE "baseline")
              [] OTHER                    -> row[c]]

ServedLess(a, b) ==
    \/ StrLess(Val(a["entity_id"]), Val(b["entity_id"]))
    \/ /\ a["entity_id"] = b["entity_id"]
       /\ Val(a["interval_start"]) < Val(b["interval_start"])

\* by=["entity_id", "interval_start"]
ServedOrder(s) == [i \in DOMAIN s |-> [j \in DOMAIN s |-> ServedLess(s[i], s[j])]]

ServeOut ==
    LET merged == ServeMerged
        rws == [i \in 1..Len(merged.rows) |-> ServedRow(merged.rows[i])] \o <<>>
    IN  Frame(ServedCols, SortBy(rws, ServedOrder(rws)))

ServeManifest ==
    [exists |-> TRUE, dataset_id |-> "eb_golden_v1",
     served_artifact |-> "served_forecast_v1", schema |-> ServedCols]

NoManifest ==
    [exists |-> FALSE, dataset_id |-> "", served_artifact |-> "", schema |-> <<>>]

\* what one run of main() leaves behind: its exit status and, on success, the
\* served table and its manifest
ServeWrites ==
    LET result == ServeResult
    IN  /\ last' = [step |-> "serve", result |-> result]
        /\ IF result = "ok"
           THEN /\ served' = ServeOut
                /\ manifest' = ServeManifest
           ELSE UNCHANGED <<served, manifest>>

Serve ==
    /\ budget > 0
    /\ budget' = budget - 1
    /\ ServeWrites
    /\ UNCHANGED <<fcst, inputs, gov, policy, ral, trace, demand, run>>

-----------------------------------------------------------------------------
(* baseline_forecast_demo_eb_golden_v1.py, as a source of forecast tables *)

\* Step executions explored from an initial state
MaxRuns == 4

\* Step executions explored when the diagnostic inputs are drawn widely
MaxGovRuns == 1

\* Intervals of the forecast scaffold
MaxIntervals == 2

SiteS == <<"s">>

SiteT == <<"t">>

EntA == <<"A">>

EntB == <<"B">>

KeySA == _make_entity_id(SiteS, EntA)

KeyTA == _make_entity_id(SiteT, EntA)

KeySB == _make_entity_id(SiteS, EntB)

FcstColumns == <<"entity_id", "interval_start", "y_true", "y_pred">>

FcstRow(k, t, y) ==
    [entity_id |-> Some(k), interval_start |-> Some(t), y_true |-> Null,
     y_pred |-> Some(y)]

\* A dense scaffold: every key at every interval 1..n, prediction y per row
Scaffold(keys, n, y) ==
    Frame(FcstColumns,
          Flatten([i \in 1..Len(keys) |-> [t \in 1..n |-> FcstRow(keys[i], t, y)]]))

\* Forecast tables a baseline run leaves on disk: scaffolds of growing length
\* with changing predictions
BaselineTables ==
    {Scaffold(<<KeySA, KeySB>>, n, 10 * n) : n \in 1..MaxIntervals}

\* Forecast tables of the right schema that no baseline run writes: a repeated
\* (entity_id, interval_start), a key without the delimiter
ForeignTables ==
    { Frame(FcstColumns, <<FcstRow(KeySA, 1, 10), FcstRow(KeySA, 1, 10)>>),
      Frame(FcstColumns, <<FcstRow(KeySA, 1, 10), FcstRow(EntB, 1, 10)>>) }

FcstTables == BaselineTables \cup ForeignTables

\* main() of the baseline step, and any other writer of the forecast panel:
\* the panel on disk is replaced
Baseline ==
    /\ budget > 0
    /\ budget' = budget - 1
    /\ fcst' \in FcstTables
    /\ last' = [step |-> "baseline", result |-> "ok"]
    /\ UNCHANGED <<inputs, gov, policy, ral, trace, served, manifest, demand, run>>

-----------------------------------------------------------------------------
(* Diagnostic inputs *)

Str_OK == <<"O","K">>

Str_BLOCK == <<"B","L","O","C","K">>

\* a metric table keyed by entity_id: vals is a sequence of <<key, cell>>
MetricTable(col, extra, vals) ==
    Frame(<<"entity_id", col>> \o extra,
          [i \in 1..Len(vals) |->
              [c \in {"entity_id", col} \cup Range(extra) |->
                  IF c = "entity_id" THEN Some(vals[i][1])
                  ELSE IF c = col THEN vals[i][2] ELSE Some(1000000)]])

\* a structural table keyed by forecast_entity_id: labels is a sequence of
\* <<entity, cell>>; classcol = "" leaves the class column out
ClassTable(classcol, extra, labels) ==
    Frame(<<"forecast_entity_id">>
          \o (IF classcol = "" THEN <<>> ELSE <<classcol>>) \o extra,
          [i \in 1..Len(labels) |->
              [c \in {"forecast_entity_id"}
                     \cup (IF classcol = "" THEN {} ELSE {classcol})
                     \cup Range(extra) |->
                  IF c = "forecast_entity_id" THEN Some(labels[i][1])
                  ELSE IF c = classcol THEN labels[i][2] ELSE Some(0)]])

AllKeys == <<KeySA, KeyTA, KeySB>>

CwslTable ==
    MetricTable("cwsl", <<"cu", "co">>,
                [i \in 1..Len(AllKeys) |-> <<AllKeys[i], Some(500000)>>])

NslUdTable ==
    Frame(<<"entity_id", "nsl", "ud">>,
          [i \in 1..Len(AllKeys) |->
              [entity_id |-> Some(AllKeys[i]), nsl |-> Some(900000), ud |-> Some(0)]])

FasTable ==
    ClassTable("fas_class", <<>>, <<<<EntA, Some(Str_OK)>>, <<EntB, Some(Str_OK)>>>>)

\* sort_values("hr_tau", ascending=True): nulls last
HrLess(a, b) == notna(a[2]) /\ (IsNull(b[2]) \/ Val(a[2]) < Val(b[2]))

\* hr_tau_v1 as its script writes it: one row per entity_id, sorted by hr_tau
HrTable(vals) ==
    MetricTable("hr_tau", <<"tau">>,
                SortBy(vals, [i \in DOMAIN vals |-> [j \in DOMAIN vals |-> HrLess(vals[i], vals[j])]]))

\* hr_tau tables of the pipeline runs (the script writes them sorted by hr_tau)
HrTables ==
    { HrTable(<<<<KeySB, Some(650000)>>, <<KeySA, Some(750000)>>>>),
      HrTable(<<<<KeySA, Some(750000)>>>>),
      HrTable(<<<<KeySA, Some(650000)>>, <<KeyTA, Some(750000)>>, <<KeySB, Null>>>>) }

DqcTables ==
    { ClassTable("dqc_class", <<>>, <<<<EntA, Some(Str_OK)>>, <<EntB, Some(Str_OK)>>>>),
      ClassTable("dqc_class", <<>>, <<<<EntA, Some(Str_OK)>>, <<EntB, Some(Str_BLOCK)>>>>) }

FpcTables ==
    { ClassTable("fpc_class", <<"ud">>, <<<<EntA, Some(Str_OK)>>, <<EntB, Some(Str_OK)>>>>),
      ClassTable("fpc_class", <<"ud">>, <<<<EntA, Some(Str_OK)>>>>) }

NoStep == [step |-> "none", result |-> "ok"]

\* raw demand generated and contractified
DemandReady == [raw |-> TRUE, panel |-> TRUE]

\* no runner invocation under way
RunnerIdle ==
    [status |-> "idle", no_fas |-> FALSE, pc |-> 0, started |-> <<>>,
     fas_before |-> FALSE, left |-> 0]

\* A base directory holding the upstream artifacts and nothing downstream
InitWith(F, H, D, P, runs) ==
    /\ fcst \in F
    /\ cwsl = CwslTable
    /\ hr \in H
    /\ nslud = NslUdTable
    /\ fas = FasTable
    /\ dqc \in D
    /\ fpc \in P
    /\ gov = Missing
    /\ policy = NoPolicy
    /\ ral = Missing
    /\ trace = Missing
    /\ served = Missing
    /\ manifest = NoManifest
    /\ last = NoStep
    /\ budget = runs
    /\ demand = DemandReady
    /\ run = RunnerIdle

Init == InitWith(BaselineTables, HrTables, DqcTables, FpcTables, MaxRuns)

-----------------------------------------------------------------------------
(* Wider diagnostic inputs for the governance step *)

Str_ok == <<"o","k">>

Str_ok_padded == <<" ","o","k"," ">>

Str_blocked == <<"b","l","o","c","k","e","d">>

Str_INCOMPATIBLE_TYPE == <<"I","N","C","O","M","P","A","T","I","B","L","E","_","T","Y","P","E">>

Str_not_block_worthy == <<"n","o","t","_","b","l","o","c","k","_","w","o","r","t","h","y">>

Str_Deny == <<"D","e","n","y">>

Str_failed == <<"f","a","i","l","e","d">>

Str_unknown == <<"u","n","k","n","o","w","n">>

Str_PASS == <<"P","A","S","S">>

RichLabels ==
    { Null, Some(<<>>), Some(Str_OK), Some(Str_ok), Some(Str_ok_padded),
      Some(Str_blocked), Some(Str_INCOMPATIBLE_TYPE), Some(Str_not_block_worthy),
      Some(Str_Deny), Some(Str_failed), Some(Str_unknown), Some(Str_PASS) }

\* Structural tables with a row for A and a row for B; A's label varies, or
\* the table has no class column at all
DqcRich ==
    {ClassTable("dqc_class", <<>>, <<<<EntA, l>>, <<EntB, Some(Str_OK)>>>>) : l \in RichLabels}
    \cup {ClassTable("", <<>>, <<<<EntA, Null>>, <<EntB, Null>>>>)}

FpcRich ==
    {ClassTable("fpc_class", <<"ud">>, <<<<EntA, l>>, <<EntB, Some(Str_OK)>>>>) : l \in RichLabels}
    \cup {ClassTable("", <<"ud">>, <<<<EntA, Null>>, <<EntB, Null>>>>)}

HrAdm ==
    { HrTable(<<<<KeySA, Some(750000)>>, <<KeySB, Some(650000)>>>>),
      HrTable(<<<<KeySA, Some(650000)>>, <<KeySB, Some(750000)>>>>) }

InitAdm == InitWith({Scaffold(<<KeySA, KeySB>>, 1, 10)}, HrAdm, DqcRich, FpcRich, MaxGovRuns)

GovLabels == {Some(Str_OK), Some(Str_BLOCK), Null}

\* Structural tables whose row for A has a varying label, or is missing
DqcGov ==
    {ClassTable("dqc_class", <<>>, <<<<EntA, l>>, <<EntB, Some(Str_OK)>>>>) : l \in GovLabels}
    \cup {ClassTable("dqc_class", <<>>, <<<<EntB, Some(Str_OK)>>>>)}

FpcGov ==
    {ClassTable("fpc_class", <<"ud">>, <<<<EntA, l>>, <<EntB, Some(Str_OK)>>>>) : l \in GovLabels}
    \cup {ClassTable("fpc_class", <<"ud">>, <<<<EntB, Some(Str_OK)>>>>)}

HrValues == {Some(650000), Some(700000), Some(750000), Null}

\* hr_tau tables: A at site s with any value, A at site t absent or present,
\* B at site s below the default threshold
HrGov ==
    {HrTable(<<<<KeySA, v>>, <<KeySB, Some(650000)>>>>) : v \in HrValues}
    \cup {HrTable(<<<<KeySA, v>>, <<KeyTA, w>>, <<KeySB, Some(650000)>>>>) :
            v \in HrValues, w \in {Some(750000), Null}}

InitGov == InitWith({Scaffold(<<KeySA, KeySB>>, 1, 10)}, HrGov, DqcGov, FpcGov, MaxGovRuns)

-----------------------------------------------------------------------------
(* Input tables with repeated keys, and tables re-emitted in another row order *)

\* Step executions explored when the tables hold repeated keys or are reordered
MaxTblRuns == 3

\* hr_tau over two sites of A and one of B: the mean of A is exactly 0.70
HrTbl ==
    HrTable(<<<<KeySA, Some(650000)>>, <<KeyTA, Some(750000)>>, <<KeySB, Some(750000)>>>>)

\* DQC tables: one row per entity, or two rows for A with different labels
DqcTbl ==
    { ClassTable("dqc_class", <<>>, <<<<EntA, Some(Str_OK)>>, <<EntB, Some(Str_OK)>>>>),
      ClassTable("dqc_class", <<>>,
                 <<<<EntA, Some(Str_OK)>>, <<EntA, Some(Str_BLOCK)>>, <<EntB, Some(Str_OK)>>>>) }

\* FPC tables: one row per entity, or no row for B
FpcTbl ==
    { ClassTable("fpc_class", <<"ud">>, <<<<EntA, Some(Str_OK)>>, <<EntB, Some(Str_OK)>>>>),
      ClassTable("fpc_class", <<"ud">>, <<<<EntA, Some(Str_OK)>>>>) }

\* FAS tables: one row per entity, or two rows for B
FasTbl ==
    { FasTable,
      ClassTable("fas_class", <<>>,
                 <<<<EntA, Some(Str_OK)>>, <<EntB, Some(Str_OK)>>, <<EntB, Some(Str_PASS)>>>>) }

InitTbl ==
    /\ fcst = Scaffold(<<KeySA, KeySB>>, 1, 10)
    /\ cwsl = CwslTable
    /\ hr = HrTbl
    /\ nslud = NslUdTable
    /\ fas \in FasTbl
    /\ dqc \in DqcTbl
    /\ fpc \in FpcTbl
    /\ gov = Missing
    /\ policy = NoPolicy
    /\ ral = Missing
    /\ trace = Missing
    /\ served = Missing
    /\ manifest = NoManifest
    /\ last = NoStep
    /\ budget = MaxTblRuns
    /\ demand = DemandReady
    /\ run = RunnerIdle

Reverse(s) == [i \in 1..Len(s) |-> s[Len(s) + 1 - i]] \o <<>>

\* the same table with its rows in the opposite order
Reordered(df) == Frame(df.columns, Reverse(df.rows))

InputNames == {"cwsl", "hr", "nslud", "fas", "dqc", "fpc"}

\* An upstream step re-emits one of the governance inputs with the same rows
\* in another order.
Shuffle ==
    /\ budget > 0
    /\ budget' = budget - 1
    /\ \E t \in InputNames :
          /\ cwsl'  = IF t = "cwsl"  THEN Reordered(cwsl)  ELSE cwsl
          /\ hr'    = IF t = "hr"    THEN Reordered(hr)    ELSE hr
          /\ nslud' = IF t = "nslud" THEN Reordered(nslud) ELSE nslud
          /\ fas'   = IF t = "fas"   THEN Reordered(fas)   ELSE fas
          /\ dqc'   = IF t = "dqc"   THEN Reordered(dqc)   ELSE dqc
          /\ fpc'   = IF t = "fpc"   THEN Reordered(fpc)   ELSE fpc
    /\ last' = [step |-> "shuffle", result |-> "ok"]
    /\ UNCHANGED <<fcst, gov, policy, ral, trace, served, manifest, demand, run>>

-----------------------------------------------------------------------------
(* Composite keys built from varying site and entity scopes *)

\* Step executions explored when the composite keys vary
MaxKeyRuns == 3

\* site and entity scopes, none of which contains "::"
SiteScopes == { <<"s">>, <<"s", ":">> }

EntityScopes == { <<"A">>, <<":", "A">>, <<"A", ":", "x">> }

\* the entity_id values the baseline step composes from them
ComposedKeys == {_make_entity_id(ss, e) : ss \in SiteScopes, e \in EntityScopes}

\* entity_id values without the delimiter, as another writer may leave them
MalformedKeys == { <<"s", "A">>, <<"s", ":", "A">> }

\* one row per entity scope that a key of the model can yield, sorted by
\* forecast_entity_id as the DQC/FPC steps write them
KeyEntities ==
    << <<":", ":", "A">>, <<":", "A">>, <<":", "A", ":", "x">>, <<"A">>,
       <<"A", ":", "x">>, EntB, <<"s", ":", "A">>, <<"s", "A">> >>

KeyClassTable(classcol, extra) ==
    ClassTable(classcol, extra,
               [i \in 1..Len(KeyEntities) |-> <<KeyEntities[i], Some(Str_OK)>>])

KeyMetricTable(col, extra, k) ==
    MetricTable(col, extra, <<<<k, Some(750000)>>, <<KeySB, Some(750000)>>>>)

InitKey ==
    \E k \in ComposedKeys \cup MalformedKeys :
        /\ fcst = Scaffold(<<k, KeySB>>, 1, 10)
        /\ cwsl = KeyMetricTable("cwsl", <<"cu", "co">>, k)
        /\ hr = KeyMetricTable("hr_tau", <<"tau">>, k)
        /\ nslud = Frame(<<"entity_id", "nsl", "ud">>,
                         <<[entity_id |-> Some(k), nsl |-> Some(900000), ud |-> Some(0)],
                           [entity_id |-> Some(KeySB), nsl |-> Some(900000), ud |-> Some(0)]>>)
        /\ fas = KeyClassTable("fas_class", <<>>)
        /\ dqc = KeyClassTable("dqc_class", <<>>)
        /\ fpc = KeyClassTable("fpc_class", <<"ud">>)
        /\ gov = Missing
        /\ policy = NoPolicy
        /\ ral = Missing
        /\ trace = Missing
        /\ served = Missing
        /\ manifest = NoManifest
        /\ last = NoStep
        /\ budget = MaxKeyRuns
        /\ demand = DemandReady
        /\ run = RunnerIdle

\* A base directory whose forecast panel may come from any writer
InitJoin ==
    InitWith(FcstTables, {HrTable(<<<<KeySB, Some(650000)>>, <<KeySA, Some(750000)>>>>)},
             {ClassTable("dqc_class", <<>>, <<<<EntA, Some(Str_OK)>>, <<EntB, Some(Str_OK)>>>>)},
             {ClassTable("fpc_class", <<"ud">>, <<<<EntA, Some(Str_OK)>>, <<EntB, Some(Str_OK)>>>>)},
             MaxRuns)

-----------------------------------------------------------------------------
(* Properties.  The vocabulary below restates the specification's terms over  *)
(* the artifacts on disk; it does not use the operators of the steps.         *)

GovernOk == last = [step |-> "govern", result |-> "ok"]

RalOk == last = [step |-> "ral", result |-> "ok"]

ServeOk == last = [step |-> "serve", result |-> "ok"]

\* decompose(key): split on the first "::"
Decompose(key) ==
    LET at == {i \in 1..(Len(key) - 1) : key[i] = ":" /\ key[i + 1] = ":"}
        p == MinOf(at)
    IN  <<SubSeq(key, 1, p - 1), SubSeq(key, p + 2, Len(key))>>

WellFormed(key) == \E i \in 1..(Len(key) - 1) : key[i] = ":" /\ key[i + 1] = ":"

ScopeOf(key) == Decompose(key)[2]

\* the governance table permits the entity scope
Permitted(fe) ==
    \E j \in 1..Len(gov.rows) :
        /\ gov.rows[j]["forecast_entity_id"] = Some(fe)
        /\ gov.rows[j]["allow_adjustment"] = Some(TRUE)

HasDecision(fe) ==
    \E j \in 1..Len(gov.rows) : gov.rows[j]["forecast_entity_id"] = Some(fe)

RowsAt(tbl, k, t) ==
    {j \in 1..Len(tbl.rows) :
        tbl.rows[j]["entity_id"] = Some(k) /\ tbl.rows[j]["interval_start"] = Some(t)}

\* the adjusted values the RAL artifact holds for (k, t)
Adjusted(k, t) == {ral.rows[j]["y_pred_ral"] : j \in RowsAt(ral, k, t)} \ {Null}

Baselines(k, t) == {fcst.rows[j]["y_pred"] : j \in RowsAt(fcst, k, t)}

\* nothing fatal stands in the way of serving
ServeInputsValid ==
    /\ fcst.exists /\ ral.exists /\ gov.exists
    /\ \A i \in 1..Len(fcst.rows) : WellFormed(Val(fcst.rows[i]["entity_id"]))
    /\ \A i \in 1..Len(fcst.rows) :
          Cardinality(RowsAt(fcst, Val(fcst.rows[i]["entity_id"]),
                             Val(fcst.rows[i]["interval_start"]))) = 1
    /\ \A i \in 1..Len(ral.rows) :
          Cardinality(RowsAt(ral, Val(ral.rows[i]["entity_id"]),
                             Val(ral.rows[i]["interval_start"]))) = 1

C2_ServingConsistency ==
    ServeOk =>
        \A i \in 1..Len(served.rows) :
            LET r == served.rows[i]
                k == Val(r["entity_id"])
                t == Val(r["interval_start"])
            IN  IF r["served_source"] = Some("ral")
                THEN \E j \in RowsAt(ral, k, t) :
                        /\ ral.rows[j]["ral_applied"] = Some(TRUE)
                        /\ notna(ral.rows[j]["y_pred_ral"])
                ELSE r["y_served"] \in Baselines(k, t)

\* The class column of a structural table: the first accepted alias it has
ClassColumn(tbl, kind) ==
    LET aliases == <<kind \o "_class", "class", "status", kind>>
        have == {i \in 1..4 : aliases[i] \in Range(tbl.columns)}
    IN  IF have = {} THEN Null ELSE Some(aliases[MinOf(have)])

DiagRows(tbl, fe) ==
    {j \in 1..Len(tbl.rows) : tbl.rows[j]["forecast_entity_id"] = Some(fe)}

HasDiagRow(tbl, fe) == DiagRows(tbl, fe) # {}

\* The classification label of the entity's (first) row: null when the table
\* has no class column or the value is null
Label(tbl, kind, fe) ==
    IF IsNull(ClassColumn(tbl, kind)) THEN Null
    ELSE tbl.rows[MinOf(DiagRows(tbl, fe))][Val(ClassColumn(tbl, kind))]

BlockWords ==
    { <<"B","L","O","C","K">>, <<"F","A","I","L">>, <<"F","A","I","L","E","D">>,
      <<"I","N","C","O","M","P","A","T","I","B","L","E">>, <<"D","E","N","Y">>,
      <<"N","O">> }

\* trimmed, upper-cased label; "" for an absent one
Normalized(label) == IF IsNull(label) THEN <<>> ELSE upper(strip(Val(label)))

LabelAbsent(label) == IsNull(label) \/ Val(label) = <<>>

\* the label blocks: some substring of its normalized form is a block word
Blocking(label) ==
    LET n == Normalized(label)
    IN  \E i, j \in 1..Len(n) : i <= j /\ SubSeq(n, i, j) \in BlockWords

\* AdmissibilityResult.ok, closed when a diagnostic row is missing
AdmissibilityOk(fe) ==
    /\ HasDiagRow(dqc, fe) /\ HasDiagRow(fpc, fe)
    /\ ~Blocking(Label(dqc, "dqc", fe))
    /\ ~Blocking(Label(fpc, "fpc", fe))

\* ThresholdResult.ok of a decision row against the minimum of the run's policy
ThresholdOk(row) ==
    /\ notna(row["hr_tau"])
    /\ Val(row["hr_tau"]).num >= policy.hr_tau_min * Val(row["hr_tau"]).den

Reasons(row) == Val(row["reasons_json"])

HasReason(row, msg) ==
    \E i \in 1..Len(Reasons(row)) : Reasons(row)[i].msg = msg

HasReasonWith(row, msg, arg) ==
    \E i \in 1..Len(Reasons(row)) :
        Reasons(row)[i].msg = msg /\ Reasons(row)[i].arg = arg

FeOf(row) == Val(row["forecast_entity_id"])

Frac(n) == Some([num |-> n, den |-> 1])

\* C3. allow_adjustment is true iff the admissibility result is ok and the
\* threshold result is ok, for every decision row.
C3_AllowIffAdmissibleAndThreshold ==
    GovernOk =>
        \A i \in 1..Len(gov.rows) :
            gov.rows[i]["allow_adjustment"]
                = Some(AdmissibilityOk(FeOf(gov.rows[i])) /\ ThresholdOk(gov.rows[i]))

\* C3 witness: under the default minimum 0.70, A passes structurally with
\* hit-rate 0.75 and is permitted, B passes structurally with 0.65 and is not.
C3_Witness ==
    /\ GovernOk
    /\ policy.hr_tau_min = 700000
    /\ \E i, j \in 1..Len(gov.rows) :
          /\ AdmissibilityOk(FeOf(gov.rows[i])) /\ AdmissibilityOk(FeOf(gov.rows[j]))
          /\ gov.rows[i]["hr_tau"] = Frac(750000)
          /\ gov.rows[i]["allow_adjustment"] = Some(TRUE)
          /\ gov.rows[j]["hr_tau"] = Frac(650000)
          /\ gov.rows[j]["allow_adjustment"] = Some(FALSE)

\* C4. Closed-world default: an entity scope of the aggregated context without
\* a DQC row or without an FPC row is not permitted, whatever its hit-rate, and
\* its trail names each diagnostic whose row is missing.
C4_ClosedWorldDefault ==
    GovernOk =>
        \A i \in 1..Len(gov.rows) :
            LET row == gov.rows[i]
                fe == FeOf(row)
            IN  /\ (~HasDiagRow(dqc, fe) \/ ~HasDiagRow(fpc, fe))
                      => row["allow_adjustment"] = Some(FALSE)
                /\ ~HasDiagRow(dqc, fe)
                      => HasReason(row, "Missing DQC row for this forecast_entity_id.")
                /\ ~HasDiagRow(fpc, fe)
                      => HasReason(row, "Missing FPC row for this forecast_entity_id.")

\* C4 witness: a decision for an entity without FPC row (its DQC row present
\* and not blocking) whose hit-rate meets the minimum.
C4_Witness ==
    /\ GovernOk
    /\ \E i \in 1..Len(gov.rows) :
          /\ ~HasDiagRow(fpc, FeOf(gov.rows[i]))
          /\ HasDiagRow(dqc, FeOf(gov.rows[i]))
          /\ ~Blocking(Label(dqc, "dqc", FeOf(gov.rows[i])))
          /\ ThresholdOk(gov.rows[i])
          /\ gov.rows[i]["allow_adjustment"] = Some(FALSE)

\* C5. Threshold inclusivity: with the structural result ok and the hit-rate v
\* present, the decision is permitted exactly when v >= m; v = m permits and
\* any v < m does not.
C5_ThresholdInclusive ==
    GovernOk =>
        \A i \in 1..Len(gov.rows) :
            LET row == gov.rows[i]
                v == Val(row["hr_tau"])
                m == policy.hr_tau_min
            IN  (AdmissibilityOk(FeOf(row)) /\ notna(row["hr_tau"])) =>
                    /\ (v.num = m * v.den => row["allow_adjustment"] = Some(TRUE))
                    /\ (v.num > m * v.den => row["allow_adjustment"] = Some(TRUE))
                    /\ (v.num < m * v.den => row["allow_adjustment"] = Some(FALSE))

\* C5 witness: one decision at exactly the minimum, permitted, and one just
\* below it, refused.
C5_Witness ==
    /\ GovernOk
    /\ \E i, j \in 1..Len(gov.rows) :
          /\ AdmissibilityOk(FeOf(gov.rows[i])) /\ AdmissibilityOk(FeOf(gov.rows[j]))
          /\ gov.rows[i]["hr_tau"] = Frac(policy.hr_tau_min)
          /\ gov.rows[i]["allow_adjustment"] = Some(TRUE)
          /\ notna(gov.rows[j]["hr_tau"])
          /\ ~ThresholdOk(gov.rows[j])
          /\ gov.rows[j]["allow_adjustment"] = Some(FALSE)

\* the composite keys that all three metric tables hold
MetricKeys ==
    {cwsl.rows[i]["entity_id"] : i \in 1..Len(cwsl.rows)}
    \cap {hr.rows[i]["entity_id"] : i \in 1..Len(hr.rows)}
    \cap {nslud.rows[i]["entity_id"] : i \in 1..Len(nslud.rows)}

\* the entity scopes of the aggregated context
Aggregated == {ScopeOf(Val(k)) : k \in MetricKeys}

\* no hit-rate value exists for the entity scope: every one of its rows in the
\* aggregated context has a null hr_tau
HitRateAbsent(fe) ==
    \A i \in 1..Len(hr.rows) :
        (hr.rows[i]["entity_id"] \in MetricKeys
            /\ ScopeOf(Val(hr.rows[i]["entity_id"])) = fe)
        => IsNull(hr.rows[i]["hr_tau"])

MissingMetricReason ==
    "Missing HR@tau; adjustment not permitted under conservative policy."

BothRows(row) == HasDiagRow(dqc, FeOf(row)) /\ HasDiagRow(fpc, FeOf(row))

DqcLabel(row) == Label(dqc, "dqc", FeOf(row))

FpcLabel(row) == Label(fpc, "fpc", FeOf(row))

OkExamples == {Some(Str_OK), Some(Str_ok), Some(<<>>), Null}

BlockedExamples ==
    {Some(Str_blocked), Some(Str_INCOMPATIBLE_TYPE), Some(Str_not_block_worthy)}

\* C7. Admissibility rule: a diagnostic blocks exactly when its normalized
\* label contains a block word as a substring, the blocking diagnostic leaves a
\* reason naming it and its label, and the result is ok iff no diagnostic
\* blocks; the labels "OK", "ok", "" and absent are ok, the labels "blocked",
\* "INCOMPATIBLE_TYPE" and "not_block_worthy" are not.
C7_AdmissibilityRule ==
    GovernOk =>
        \A i \in 1..Len(gov.rows) :
            LET row == gov.rows[i]
                dl == DqcLabel(row)
                fl == FpcLabel(row)
            IN  BothRows(row) =>
                  /\ Blocking(dl) <=> HasReason(row, "DQC not admissible: ")
                  /\ Blocking(fl) <=> HasReason(row, "FPC not compatible: ")
                  /\ Blocking(dl)
                        => HasReasonWith(row, "DQC not admissible: ", Normalized(dl))
                  /\ Blocking(fl)
                        => HasReasonWith(row, "FPC not compatible: ", Normalized(fl))
                  /\ ThresholdOk(row)
                        => row["allow_adjustment"] = Some(~Blocking(dl) /\ ~Blocking(fl))
                  /\ (dl \in BlockedExamples \/ fl \in BlockedExamples)
                        => row["allow_adjustment"] = Some(FALSE)
                  /\ (dl \in OkExamples /\ fl \in OkExamples /\ ThresholdOk(row))
                        => row["allow_adjustment"] = Some(TRUE)

\* C7 witness: a decision whose hit-rate meets the minimum, refused because the
\* DQC label "not_block_worthy" holds the word BLOCK, the FPC label being "ok".
C7_Witness ==
    /\ GovernOk
    /\ \E i \in 1..Len(gov.rows) :
          /\ BothRows(gov.rows[i])
          /\ DqcLabel(gov.rows[i]) = Some(Str_not_block_worthy)
          /\ FpcLabel(gov.rows[i]) = Some(Str_ok)
          /\ ThresholdOk(gov.rows[i])
          /\ gov.rows[i]["allow_adjustment"] = Some(FALSE)
          /\ HasReasonWith(gov.rows[i], "DQC not admissible: ",
                           upper(Str_not_block_worthy))

DqcAbsentReason == "DQC class not found in artifact (proceeding conservatively)."

FpcAbsentReason == "FPC class not found in artifact (proceeding conservatively)."

\* C8. An absent label in a present diagnostic row (no class column, null
\* value or empty string) does not block and leaves an informational reason;
\* with both labels absent and the hit-rate meeting the minimum the decision
\* is permitted.
C8_AbsentLabelInformational ==
    GovernOk =>
        \A i \in 1..Len(gov.rows) :
            LET row == gov.rows[i]
                dl == DqcLabel(row)
                fl == FpcLabel(row)
            IN  BothRows(row) =>
                  /\ LabelAbsent(dl)
                        => /\ ~HasReason(row, "DQC not admissible: ")
                           /\ HasReason(row, DqcAbsentReason)
                  /\ LabelAbsent(fl)
                        => /\ ~HasReason(row, "FPC not compatible: ")
                           /\ HasReason(row, FpcAbsentReason)
                  /\ (LabelAbsent(dl) /\ ~Blocking(fl) /\ ThresholdOk(row))
                        => row["allow_adjustment"] = Some(TRUE)
                  /\ (LabelAbsent(fl) /\ ~Blocking(dl) /\ ThresholdOk(row))
                        => row["allow_adjustment"] = Some(TRUE)

\* C8 witness: a permitted decision for an entity whose DQC table has no class
\* column and whose FPC label is null, both absences noted in its trail.
C8_Witness ==
    /\ GovernOk
    /\ \E i \in 1..Len(gov.rows) :
          /\ BothRows(gov.rows[i])
          /\ IsNull(ClassColumn(dqc, "dqc"))
          /\ notna(ClassColumn(fpc, "fpc"))
          /\ IsNull(FpcLabel(gov.rows[i]))
          /\ ThresholdOk(gov.rows[i])
          /\ gov.rows[i]["allow_adjustment"] = Some(TRUE)
          /\ HasReason(gov.rows[i], DqcAbsentReason)
          /\ HasReason(gov.rows[i], FpcAbsentReason)

\* nothing but a missing decision could stand in the way of the RAL step
RalInputsValid ==
    /\ fcst.exists /\ gov.exists
    /\ \A i \in 1..Len(fcst.rows) : WellFormed(Val(fcst.rows[i]["entity_id"]))

RalScope(row) == ScopeOf(Val(row["entity_id"]))

\* C9. RAL permission defaults closed: a forecast row whose entity scope has
\* no governance decision gets applied = false and mode "none", and the step
\* does not fail on account of the missing decision.
C9_RalPermissionDefaultsClosed ==
    /\ RalOk =>
         \A i \in 1..Len(ral.rows) :
            ~HasDecision(RalScope(ral.rows[i])) =>
                /\ ral.rows[i]["ral_applied"] = Some(FALSE)
                /\ ral.rows[i]["ral_mode"] = Some("none")
    /\ (last.step = "ral" /\ RalInputsValid) => last.result = "ok"

\* C9 witness: a RAL output with a row whose entity scope has no decision
\* next to a row whose entity scope is permitted.
C9_Witness ==
    /\ RalOk
    /\ \E i, j \in 1..Len(ral.rows) :
          /\ ~HasDecision(RalScope(ral.rows[i]))
          /\ ral.rows[i]["ral_applied"] = Some(FALSE)
          /\ Permitted(RalScope(ral.rows[j]))

\* C10. In every RAL output row applied is true iff the governance decision
\* of the row's entity scope permits adjustment; mode is "identity" when
\* applied and "none" when not.
C10_AppliedIffPermitted ==
    RalOk =>
        \A i \in 1..Len(ral.rows) :
            LET row == ral.rows[i]
            IN  /\ row["ral_applied"] = Some(Permitted(RalScope(row)))
                /\ row["ral_mode"] = Some("none") <=> row["ral_applied"] = Some(FALSE)
                /\ row["ral_mode"] = Some("identity") <=> row["ral_applied"] = Some(TRUE)

\* C10 witness: a RAL output with an applied row in mode "identity" and a row
\* refused by its decision in mode "none".
C10_Witness ==
    /\ RalOk
    /\ \E i, j \in 1..Len(ral.rows) :
          /\ ral.rows[i]["ral_applied"] = Some(TRUE)
          /\ ral.rows[i]["ral_mode"] = Some("identity")
          /\ HasDecision(RalScope(ral.rows[j]))
          /\ ral.rows[j]["ral_applied"] = Some(FALSE)
          /\ ral.rows[j]["ral_mode"] = Some("none")

\* C11. As claimed: in the RAL output a row whose entity scope is not
\* permitted (applied false) has no adjusted value.
C11_AdjustedAbsentWhenNotApplied ==
    RalOk =>
        \A i \in 1..Len(ral.rows) :
            ral.rows[i]["ral_applied"] = Some(FALSE) => IsNull(ral.rows[i]["y_pred_ral"])

\* C12. As claimed: the governance output holds one decision row per entity
\* scope (no forecast_entity_id twice) and every row has a boolean
\* allow_adjustment, whatever the input tables, repeated structural keys included.
C12_OneDecisionPerEntity ==
    GovernOk =>
        /\ \A i, j \in 1..Len(gov.rows) :
              gov.rows[i]["forecast_entity_id"] = gov.rows[j]["forecast_entity_id"] => i = j
        /\ \A i \in 1..Len(gov.rows) :
              gov.rows[i]["allow_adjustment"] \in {Some(TRUE), Some(FALSE)}

\* C13. No silent drop: the governance context has at least as many rows as
\* the aggregated metrics table has entity scopes, every one of these scopes
\* has a decision row, and a scope without row in a structural table is kept
\* with that classification absent.
C13_NoSilentDrop ==
    GovernOk =>
        /\ Len(gov.rows) >= Cardinality(Aggregated)
        /\ \A fe \in Aggregated : HasDecision(fe)
        /\ \A i \in 1..Len(gov.rows) :
              LET row == gov.rows[i]
              IN  /\ ~HasDiagRow(dqc, FeOf(row)) => IsNull(row["dqc_class"])
                  /\ ~HasDiagRow(fpc, FeOf(row)) => IsNull(row["fpc_class"])
                  /\ ~HasDiagRow(fas, FeOf(row)) => IsNull(row["fas_class"])

\* C13 witness: a governance table holding an entity scope that has no FPC
\* row, its classification absent, and more rows than the metrics table has
\* scopes.
C13_Witness ==
    /\ GovernOk
    /\ Len(gov.rows) > Cardinality(Aggregated)
    /\ \E i \in 1..Len(gov.rows) :
          /\ FeOf(gov.rows[i]) \in Aggregated
          /\ ~HasDiagRow(fpc, FeOf(gov.rows[i]))
          /\ HasDiagRow(dqc, FeOf(gov.rows[i]))
          /\ IsNull(gov.rows[i]["fpc_class"])
          /\ notna(gov.rows[i]["dqc_class"])

\* C14. As claimed: a governance run on the same input tables, their rows in
\* any order, under the same policy settings, yields the decision table that
\* the previous run yielded (same rows, same values, same order).
C14_Determinism ==
    [][ (/\ gov.exists
         /\ last'.step = "govern" /\ last'.result = "ok"
         /\ policy' = policy)
        => gov' = gov ]_vars

\* the row itself holds the threshold value of the run: as a field of its own,
\* or at least inside its trail
ThresholdInRow(row) ==
    \/ /\ "hr_tau_min" \in DOMAIN row
       /\ row["hr_tau_min"] = Some(policy.hr_tau_min)
    \/ \E i \in 1..Len(Reasons(row)) :
          /\ Reasons(row)[i].msg = "HR@tau= vs threshold "
          /\ Reasons(row)[i].arg[2] = policy.hr_tau_min

\* C15. As claimed: every decision row embeds the policy snapshot it was made
\* under: the threshold value, the policy version, the allowed adjustment
\* modes and the fallback flag.
C15_SnapshotPerDecision ==
    GovernOk =>
        \A i \in 1..Len(gov.rows) :
            LET row == gov.rows[i]
            IN  /\ ThresholdInRow(row)
                /\ row["policy_version"] = Some(policy.version)
                /\ row["allowed_ral_modes"] = Some(policy.allowed_ral_modes_if_permitted)
                /\ row["allow_fallback"] = Some(policy.allow_fallback_default)

\* compose(s, e)
Compose(ss, e) == ss \o <<":", ":">> \o e

KeyRows(tbl, k) == {i \in 1..Len(tbl.rows) : tbl.rows[i]["entity_id"] = Some(k)}

\* C16. As claimed: for site scopes s and entity scopes e without "::", the
\* entity scope that RAL, serving and governance recover from compose(s, e)
\* is exactly e.
C16_KeyRoundTrip ==
    \A ss \in SiteScopes, e \in EntityScopes :
        LET k == Compose(ss, e)
        IN  /\ RalOk =>
                 \A i \in KeyRows(ral, k) : ral.rows[i]["forecast_entity_id"] = Some(e)
            /\ ServeOk =>
                 \A i \in KeyRows(served, k) : served.rows[i]["forecast_entity_id"] = Some(e)
            /\ (GovernOk /\ Some(k) \in MetricKeys) => HasDecision(e)

\* some composite key of the forecast panel has no "::"
FcstKeyMalformed ==
    \E i \in 1..Len(fcst.rows) : ~WellFormed(Val(fcst.rows[i]["entity_id"]))

\* some composite key of the joined metric tables has no "::"
MetricKeyMalformed == \E k \in MetricKeys : ~WellFormed(Val(k))

\* C17. As claimed: a composite key without "::" is fatal in every component
\* that derives an entity scope from it: the governance, RAL or serving run
\* that meets one does not succeed.
C17_MalformedKeyFatal ==
    /\ (last.step = "govern" /\ MetricKeyMalformed) => last.result # "ok"
    /\ (last.step = "ral" /\ FcstKeyMalformed) => last.result # "ok"
    /\ (last.step = "serve" /\ FcstKeyMalformed) => last.result # "ok"

\* a table holds two rows with the same (entity_id, interval_start)
RepeatedKey(tbl) ==
    \E i, j \in 1..Len(tbl.rows) :
        /\ i # j
        /\ tbl.rows[i]["entity_id"] = tbl.rows[j]["entity_id"]
        /\ tbl.rows[i]["interval_start"] = tbl.rows[j]["interval_start"]

\* C18. The serving join is one-to-one: with a repeated (entity_id,
\* interval_start) in the baseline or the adjusted table serving fails with a
\* validation error, a failed serving run leaves the served table and its
\* manifest as they were, and a successful one emits exactly one served row
\* per baseline forecast row.
C18_OneToOneJoin ==
    /\ [](/\ (/\ last.step = "serve"
              /\ fcst.exists /\ ral.exists /\ gov.exists
              /\ (RepeatedKey(fcst) \/ RepeatedKey(ral)))
             => last.result = "MergeError"
          /\ ServeOk =>
                /\ Len(served.rows) = Len(fcst.rows)
                /\ \A i \in 1..Len(fcst.rows) :
                      Cardinality(RowsAt(served, Val(fcst.rows[i]["entity_id"]),
                                         Val(fcst.rows[i]["interval_start"]))) = 1)
    /\ [][(last'.step = "serve" /\ last'.result # "ok")
             => (served' = served /\ manifest' = manifest)]_vars

\* C18 witness: a serving run refused for a repeated key of the adjusted
\* table, the baseline keys being unique, no served table written.
C18_Witness ==
    /\ last = [step |-> "serve", result |-> "MergeError"]
    /\ RepeatedKey(ral)
    /\ ~RepeatedKey(fcst)
    /\ ~served.exists

-----------------------------------------------------------------------------
(* run_demo_eb_golden_v1.py *)

\* runner invocations explored on one base directory
MaxInvocations == 2

\* Faulty variant of StepNames: FPC is listed before DQC
StepNames_fpc_before_dqc(no_fas) ==
    <<"make", "contractify", "baseline", "cwsl", "hr_tau", "nsl_ud">>
    \o (IF no_fas THEN <<>> ELSE <<"fas">>)
    \o <<"fpc", "dqc", "govern", "ral", "serve">>

\* steps of main(): the scripts in the order they are run
StepNames(no_fas) ==
    <<"make", "contractify", "baseline", "cwsl", "hr_tau", "nsl_ud">>
    \o (IF no_fas THEN <<>> ELSE <<"fas">>)
    \o <<"dqc", "fpc", "govern", "ral", "serve">>

\* Faulty variant of RunnerStatus: the exit code of the step is not looked at
RunnerStatus_exit_ignored(result, pc, n) ==
    IF pc = n THEN "ok" ELSE "running"

\* _run_step raises SystemExit on a non-zero exit code, which ends main();
\* the loop falling through its last step prints ALL STEPS OK
RunnerStatus(result, pc, n) ==
    IF result # "ok" THEN "failed"
    ELSE IF pc = n THEN "ok"
    ELSE "running"

\* the command line of the governance step as the runner builds it:
\* --base-dir only
RunnerGovArgs == [hr_tau_min |-> Null, allow_fallback |-> FALSE]

\* a fresh base directory: no artifact of any step
InitRun ==
    /\ fcst = Missing
    /\ cwsl = Missing
    /\ hr = Missing
    /\ nslud = Missing
    /\ fas = Missing
    /\ dqc = Missing
    /\ fpc = Missing
    /\ gov = Missing
    /\ policy = NoPolicy
    /\ ral = Missing
    /\ trace = Missing
    /\ served = Missing
    /\ manifest = NoManifest
    /\ last = NoStep
    /\ budget = 0
    /\ demand = [raw |-> FALSE, panel |-> FALSE]
    /\ run = [RunnerIdle EXCEPT !.left = MaxInvocations]

\* main() up to its loop: the options are parsed and the step list is built
RunnerStart(no_fas) ==
    /\ run.status # "running"
    /\ run.left > 0
    /\ run' = [status |-> "running", no_fas |-> no_fas, pc |-> 1,
               started |-> <<>>, fas_before |-> fas.exists,
               left |-> run.left - 1]
    /\ UNCHANGED <<fcst, inputs, gov, policy, ral, trace, served, manifest,
                   last, budget, demand>>

\* the loop of main() stands at the step called name
RunnerAt(name) ==
    /\ run.status = "running"
    /\ run.pc \in 1..Len(StepNames(run.no_fas))
    /\ StepNames(run.no_fas)[run.pc] = name

\* _run_step returning or raising: the step and its exit are on record, the
\* loop moves on or main() ends
RunnerMoves ==
    run' = [run EXCEPT
               !.started = Append(@, last'),
               !.pc = IF last'.result = "ok" THEN @ + 1 ELSE @,
               !.status = RunnerStatus(last'.result, run.pc,
                                       Len(StepNames(run.no_fas)))]

\* make_demo_eb_golden_v1.py: the raw demand file and its manifest are written
RunMake ==
    /\ RunnerAt("make")
    /\ last' = [step |-> "make", result |-> "ok"]
    /\ demand' = [demand EXCEPT !.raw = TRUE]
    /\ RunnerMoves
    /\ UNCHANGED <<fcst, inputs, gov, policy, ral, trace, served, manifest, budget>>

\* contractify_demo_eb_golden_v1.py: the raw demand file is read and
\* panel_demand_v1 is written
RunContractify ==
    /\ RunnerAt("contractify")
    /\ IF demand.raw
       THEN /\ last' = [step |-> "contractify", result |-> "ok"]
            /\ demand' = [demand EXCEPT !.panel = TRUE]
       ELSE /\ last' = [step |-> "contractify", result |-> "FileNotFoundError"]
            /\ UNCHANGED demand
    /\ RunnerMoves
    /\ UNCHANGED <<fcst, inputs, gov, policy, ral, trace, served, manifest, budget>>

\* baseline_forecast_demo_eb_golden_v1.py run on the demand panel
RunBaseline ==
    /\ RunnerAt("baseline")
    /\ IF demand.panel
       THEN /\ last' = [step |-> "baseline", result |-> "ok"]
            /\ fcst' \in BaselineTables
       ELSE /\ last' = [step |-> "baseline", result |-> "FileNotFoundError"]
            /\ UNCHANGED fcst
    /\ RunnerMoves
    /\ UNCHANGED <<inputs, gov, policy, ral, trace, served, manifest, budget, demand>>

\* How an evaluation script exits: FileNotFoundError without its inputs,
\* ValueError when no row has a known realised value, else 0
EvalExits(ready) ==
    IF ready THEN {"ok", "ValueError"} ELSE {"FileNotFoundError"}

\* eval_cwsl_demo_eb_golden_v1.py
RunCwsl ==
    /\ RunnerAt("cwsl")
    /\ \E result \in EvalExits(fcst.exists) :
          /\ last' = [step |-> "cwsl", result |-> result]
          /\ IF result = "ok" THEN cwsl' = CwslTable ELSE UNCHANGED cwsl
    /\ RunnerMoves
    /\ UNCHANGED <<fcst, hr, nslud, fas, dqc, fpc, gov, policy, ral, trace,
                   served, manifest, budget, demand>>

\* eval_hr_tau_demo_eb_golden_v1.py
RunHrTau ==
    /\ RunnerAt("hr_tau")
    /\ \E result \in EvalExits(fcst.exists) :
          /\ last' = [step |-> "hr_tau", result |-> result]
          /\ IF result = "ok" THEN hr' \in HrTables ELSE UNCHANGED hr
    /\ RunnerMoves
    /\ UNCHANGED <<fcst, cwsl, nslud, fas, dqc, fpc, gov, policy, ral, trace,
                   served, manifest, budget, demand>>

\* eval_nsl_ud_demo_eb_golden_v1.py
RunNslUd ==
    /\ RunnerAt("nsl_ud")
    /\ \E result \in EvalExits(fcst.exists) :
          /\ last' = [step |-> "nsl_ud", result |-> result]
          /\ IF result = "ok" THEN nslud' = NslUdTable ELSE UNCHANGED nslud
    /\ RunnerMoves
    /\ UNCHANGED <<fcst, cwsl, hr, fas, dqc, fpc, gov, policy, ral, trace,
                   served, manifest, budget, demand>>

\* eval_fas_demo_eb_golden_v1.py: the only writer of fas_v1
RunFas ==
    /\ RunnerAt("fas")
    /\ IF demand.panel /\ fcst.exists
       THEN /\ last' = [step |-> "fas", result |-> "ok"]
            /\ fas' = FasTable
       ELSE /\ last' = [step |-> "fas", result |-> "FileNotFoundError"]
            /\ UNCHANGED fas
    /\ RunnerMoves
    /\ UNCHANGED <<fcst, cwsl, hr, nslud, dqc, fpc, gov, policy, ral, trace,
                   served, manifest, budget, demand>>

\* eval_dqc_demo_eb_golden_v1.py
RunDqc ==
    /\ RunnerAt("dqc")
    /\ \E result \in EvalExits(demand.panel) :
          /\ last' = [step |-> "dqc", result |-> result]
          /\ IF result = "ok" THEN dqc' \in DqcTables ELSE UNCHANGED dqc
    /\ RunnerMoves
    /\ UNCHANGED <<fcst, cwsl, hr, nslud, fas, fpc, gov, policy, ral, trace,
                   served, manifest, budget, demand>>

\* eval_fpc_demo_eb_golden_v1.py
RunFpc ==
    /\ RunnerAt("fpc")
    /\ \E result \in EvalExits(fcst.exists /\ dqc.exists) :
          /\ last' = [step |-> "fpc", result |-> result]
          /\ IF result = "ok" THEN fpc' \in FpcTables ELSE UNCHANGED fpc
    /\ RunnerMoves
    /\ UNCHANGED <<fcst, cwsl, hr, nslud, fas, dqc, gov, policy, ral, trace,
                   served, manifest, budget, demand>>

\* govern_demo_eb_golden_v1.py as a step of the runner
RunGovern ==
    /\ RunnerAt("govern")
    /\ GovernWrites(RunnerGovArgs)
    /\ RunnerMoves
    /\ UNCHANGED <<fcst, inputs, ral, trace, served, manifest, budget, demand>>

\* ral_demo_eb_golden_v1.py as a step of the runner
RunRal ==
    /\ RunnerAt("ral")
    /\ RalWrites
    /\ RunnerMoves
    /\ UNCHANGED <<fcst, inputs, gov, policy, served, manifest, budget, demand>>

\* serve_demo_eb_golden_v1.py as a step of the runner
RunServe ==
    /\ RunnerAt("serve")
    /\ ServeWrites
    /\ RunnerMoves
    /\ UNCHANGED <<fcst, inputs, gov, policy, ral, trace, budget, demand>>

\* the order of the runner's docstring, the optional step included
CanonicalOrder ==
    <<"make", "contractify", "baseline", "cwsl", "hr_tau", "nsl_ud", "fas",
      "dqc", "fpc", "govern", "ral", "serve">>

\* the canonical order of an invocation: FAS left out under --no-fas
Listed(no_fas) ==
    SelectSeq(CanonicalOrder, LAMBDA name : ~(no_fas /\ name = "fas"))

\* the steps an invocation has started so far, by name
StartedNames == [i \in 1..Len(run.started) |-> run.started[i].step] \o <<>>

\* the invocation has started the step called name, and it exited with result
Exited(name, result) ==
    \E i \in 1..Len(run.started) :
        run.started[i] = [step |-> name, result |-> result]

\* the invocation has started the step called name
Started(name) == \E i \in 1..Len(run.started) : run.started[i].step = name

\* C19. The runner executes its steps one at a time in the canonical listed
\* order and fails fast: the steps started are always a prefix of the listed
\* order, a step that exits non-zero is the last one started and ends the
\* invocation as failed, no step is started after a failure, and ALL STEPS OK
\* is reported only when every listed step ran and exited with code 0.
C19_RunnerFailsFast ==
    /\ [](/\ Len(run.started) <= Len(Listed(run.no_fas))
          /\ StartedNames = SubSeq(Listed(run.no_fas), 1, Len(run.started))
          /\ \A i \in 1..Len(run.started) :
                run.started[i].result # "ok"
                   => (i = Len(run.started) /\ run.status = "failed")
          /\ run.status = "ok"
                => /\ StartedNames = Listed(run.no_fas)
                   /\ \A i \in 1..Len(run.started) : run.started[i].result = "ok")
    /\ [][/\ Len(run'.started) <= Len(run.started) + 1
          /\ (run.status = "failed" /\ run'.left = run.left)
                => (run' = run /\ inputs' = inputs /\ fcst' = fcst /\ gov' = gov
                    /\ ral' = ral /\ served' = served)]_vars

\* C19 witness: an invocation ended by the non-zero exit of its hit-rate
\* step, with the steps before it done and no later step started.
C19_Witness ==
    /\ run.status = "failed"
    /\ Exited("cwsl", "ok")
    /\ Exited("hr_tau", "ValueError")
    /\ ~Started("nsl_ud")
    /\ ~nslud.exists

\* C20. FAS is optional: an invocation with --no-fas on a base directory
\* with no earlier FAS artifact skips only the FAS step, and once its DQC and
\* FPC steps have succeeded its governance step exits with code 0, so that the
\* invocation can go on to RAL and serving.
C20_NoFasCompletes ==
    (run.no_fas /\ ~run.fas_before)
       => /\ ~Started("fas")
          /\ StartedNames = SubSeq(Listed(TRUE), 1, Len(run.started))
          /\ Started("govern") => Exited("govern", "ok")

-----------------------------------------------------------------------------
(* Defective artifacts and interrupted runs *)

\* Step executions explored when artifacts are defective
MaxFaultRuns == 5

\* df.drop(columns=[c])
DropCol(df, c) ==
    LET Keep(x) == x # c
    IN  Project(df, SelectSeq(df.columns, Keep))

\* the artifacts the three steps read, and for each a column its reader
\* requires
RequiredCol ==
    [cwsl |-> "entity_id", hr |-> "hr_tau", nslud |-> "ud",
     fas |-> "forecast_entity_id", dqc |-> "forecast_entity_id",
     fpc |-> "forecast_entity_id", fcst |-> "y_pred",
     gov |-> "allow_adjustment", ral |-> "y_pred_ral"]

\* an artifact as a defect leaves it: removed, or without the required column
Defective(df, kind, c) ==
    IF kind = "removed" \/ ~df.exists THEN Missing ELSE DropCol(df, c)

\* A base directory with sound upstream artifacts and nothing downstream
InitFault ==
    /\ fcst = Scaffold(<<KeySA, KeySB>>, 1, 10)
    /\ cwsl = CwslTable
    /\ hr = HrTable(<<<<KeySB, Some(650000)>>, <<KeySA, Some(750000)>>>>)
    /\ nslud = NslUdTable
    /\ fas = FasTable
    /\ dqc = ClassTable("dqc_class", <<>>, <<<<EntA, Some(Str_OK)>>, <<EntB, Some(Str_OK)>>>>)
    /\ fpc = ClassTable("fpc_class", <<"ud">>, <<<<EntA, Some(Str_OK)>>, <<EntB, Some(Str_OK)>>>>)
    /\ gov = Missing
    /\ policy = NoPolicy
    /\ ral = Missing
    /\ trace = Missing
    /\ served = Missing
    /\ manifest = NoManifest
    /\ last = NoStep
    /\ budget = MaxFaultRuns
    /\ demand = DemandReady
    /\ run = RunnerIdle

\* An artifact that a step reads is removed, or re-emitted without a column
\* the step requires.
Damage ==
    /\ budget > 0
    /\ budget' = budget - 1
    /\ \E t \in DOMAIN RequiredCol, kind \in {"removed", "column"} :
          LET D(name, df) == IF t = name THEN Defective(df, kind, RequiredCol[t])
                             ELSE df
          IN  /\ cwsl'  = D("cwsl", cwsl)
              /\ hr'    = D("hr", hr)
              /\ nslud' = D("nslud", nslud)
              /\ fas'   = D("fas", fas)
              /\ dqc'   = D("dqc", dqc)
              /\ fpc'   = D("fpc", fpc)
              /\ fcst'  = D("fcst", fcst)
              /\ gov'   = D("gov", gov)
              /\ ral'   = D("ral", ral)
    /\ last' = [step |-> "damage", result |-> "ok"]
    /\ UNCHANGED <<policy, trace, served, manifest, demand, run>>

\* govern main() ended (killed, or an OSError of write_text) after
\* out_df.to_parquet and before the policy descriptor is written
GovernInterrupted(args) ==
    /\ budget > 0
    /\ budget' = budget - 1
    /\ GovResult = "ok"
    /\ gov' = GovOut(args)
    /\ last' = [step |-> "govern", result |-> "Interrupted"]
    /\ UNCHANGED <<fcst, inputs, policy, ral, trace, served, manifest, demand, run>>

\* ral main() ended after out.to_parquet and before trace.to_parquet
RalInterrupted ==
    /\ budget > 0
    /\ budget' = budget - 1
    /\ RalResult = "ok"
    /\ ral' = RalOut
    /\ last' = [step |-> "ral", result |-> "Interrupted"]
    /\ UNCHANGED <<fcst, inputs, gov, policy, trace, served, manifest, demand, run>>

\* serve main() ended after out.to_parquet and before the manifest is written
ServeInterrupted ==
    /\ budget > 0
    /\ budget' = budget - 1
    /\ ServeResult = "ok"
    /\ served' = ServeOut
    /\ last' = [step |-> "serve", result |-> "Interrupted"]
    /\ UNCHANGED <<fcst, inputs, gov, policy, ral, trace, manifest, demand, run>>

\* how a step exits on a failed precondition
PreconditionFailures == {"FileNotFoundError", "ValueError", "MergeError", "KeyError"}

C22_AllOrNothing ==
    /\ gov.exists => policy.exists
    /\ ral.exists => trace.exists
    /\ served.exists => manifest.exists

-----------------------------------------------------------------------------
(* Rows of one entity scope changed between two governance runs *)

\* Step executions explored when the rows of one scope are perturbed
MaxIsoRuns == 3

\* the entity scopes of the exploration, by name
ScopeNamed == [A |-> EntA, B |-> EntB, C |-> <<"C">>]

MetricNames == {"cwsl", "hr", "nslud"}

\* the key column and a value column of each governance input
TableKey(t) == IF t \in MetricNames THEN "entity_id" ELSE "forecast_entity_id"

TableVal ==
    [cwsl |-> "cwsl", hr |-> "hr_tau", nslud |-> "nsl",
     fas |-> "fas_class", dqc |-> "dqc_class", fpc |-> "fpc_class"]

\* the entity scope a row of table t belongs to, as governance derives it
ScopeOfRow(t, row) ==
    IF t \in MetricNames THEN fe_from_entity_id(Val(row["entity_id"]))
    ELSE Val(row["forecast_entity_id"])

\* a value that no table of the initial states holds
NewVal(t) == IF t \in MetricNames THEN Some(100000) ELSE Some(Str_BLOCK)

\* table t with the rows of scope y removed, changed, or one more added
Perturbed(t, df, y, kind) ==
    LET Other(r) == ScopeOfRow(t, r) # y
        Changed(r) == IF Other(r) THEN r ELSE [r EXCEPT ![TableVal[t]] = NewVal(t)]
        key == IF t \in MetricNames THEN _make_entity_id(SiteT, y) ELSE y
        one == [df.rows[1] EXCEPT ![TableKey(t)] = Some(key),
                                  ![TableVal[t]] = NewVal(t)]
    IN  IF kind = "remove" THEN Frame(df.columns, SelectSeq(df.rows, Other))
        ELSE IF kind = "change"
             THEN Frame(df.columns, [i \in 1..Len(df.rows) |-> Changed(df.rows[i])])
        ELSE Frame(df.columns, Append(df.rows, one))

InitIso ==
    InitWith({Scaffold(<<KeySA, KeySB>>, 1, 10)}, HrTables, DqcTables, FpcTables,
             MaxIsoRuns)

\* Right after a governance run an upstream step re-emits one governance input
\* with the rows of one entity scope removed, changed or added to; the scope
\* is on record by its name.
Perturb ==
    /\ budget > 0
    /\ budget' = budget - 1
    /\ last = [step |-> "govern", result |-> "ok"]
    /\ \E t \in InputNames, n \in DOMAIN ScopeNamed, kind \in {"remove", "change", "add"} :
          LET P(name, df) ==
                  IF t = name /\ df.exists /\ df.rows # <<>> /\ HasCol(df, TableVal[t])
                  THEN Perturbed(t, df, ScopeNamed[n], kind) ELSE df
          IN  /\ cwsl'  = P("cwsl", cwsl)
              /\ hr'    = P("hr", hr)
              /\ nslud' = P("nslud", nslud)
              /\ fas'   = P("fas", fas)
              /\ dqc'   = P("dqc", dqc)
              /\ fpc'   = P("fpc", fpc)
              /\ last' = [step |-> "perturb", result |-> n]
    /\ UNCHANGED <<fcst, gov, policy, ral, trace, served, manifest, demand, run>>

\* the decision of scope x in a decision table: permission and reason trail
\* of its rows
DecisionOf(g, x) ==
    LET Mine(r) == Val(r["forecast_entity_id"]) = x
        mine == SelectSeq(g.rows, Mine)
    IN  [i \in 1..Len(mine) |-> <<mine[i]["allow_adjustment"], mine[i]["reasons_json"]>>]
        \o <<>>

\* C23. No cross-entity interaction: when the rows of one entity scope are
\* changed, added or removed in a governance input and governance runs again
\* under the same policy, the permission and the reason trail of every other
\* entity scope are what they were.
C23_NoCrossEntity ==
    [][(/\ last.step = "perturb"
        /\ last'.step = "govern" /\ last'.result = "ok"
        /\ policy' = policy)
          => \A n \in DOMAIN ScopeNamed :
                n # last.result
                   => DecisionOf(gov', ScopeNamed[n]) = DecisionOf(gov, ScopeNamed[n])]_vars

\* C23 witness: governance re-run after the hit rate of scope A was changed:
\* A is now denied, B is permitted as before.
C23_Witness ==
    /\ last = [step |-> "govern", result |-> "ok"]
    /\ \E i \in 1..Len(hr.rows) :
          /\ hr.rows[i]["hr_tau"] = Some(100000)
          /\ ScopeOfRow("hr", hr.rows[i]) = EntA
    /\ DecisionOf(gov, EntA) # <<>>
    /\ DecisionOf(gov, EntB) # <<>>
    /\ \A i \in 1..Len(gov.rows) :
          gov.rows[i]["allow_adjustment"]
             = Some(Val(gov.rows[i]["forecast_entity_id"]) = EntB)

\* the place of a structural reason in the trail of a row whose DQC and FPC
\* rows exist (1..4), or whose DQC or FPC row is missing (5..6); 0 for any
\* other message
StructuralRank(msg) ==
    IF msg = "DQC not admissible: " THEN 1
    ELSE IF msg = "FPC not compatible: " THEN 2
    ELSE IF msg = "DQC class not found in artifact (proceeding conservatively)." THEN 3
    ELSE IF msg = "FPC class not found in artifact (proceeding conservatively)." THEN 4
    ELSE IF msg = "Missing DQC row for this forecast_entity_id." THEN 5
    ELSE IF msg = "Missing FPC row for this forecast_entity_id." THEN 6
    ELSE 0

ThresholdMessages ==
    {"HR@tau= vs threshold ",
     "Missing HR@tau; adjustment not permitted under conservative policy."}

\* C24. Reason-trail ordering: the reasons of every decision are the
\* structural reasons in their order (DQC blocking, FPC blocking, DQC absence,
\* FPC absence; or the missing-row reasons alone, DQC before FPC), then exactly
\* one threshold reason, then exactly one terminal summary as the last
\* element, which says permitted exactly when allow_adjustment is true.
C24_ReasonTrailOrder ==
    gov.exists =>
        \A i \in 1..Len(gov.rows) :
            LET rs == Reasons(gov.rows[i])
                n == Len(rs)
                rank == [k \in 1..n |-> StructuralRank(rs[k].msg)]
            IN  /\ n >= 2
                /\ rs[n] = summary_reason(Val(gov.rows[i]["allow_adjustment"]))
                /\ rs[n - 1].msg \in ThresholdMessages
                /\ \A k \in 1..(n - 2) : rank[k] > 0
                /\ \A k \in 1..(n - 3) : rank[k] < rank[k + 1]
                /\ \A k, l \in 1..(n - 2) : (rank[k] <= 4) = (rank[l] <= 4)

\* C24 witness: a decision whose trail holds a DQC blocking reason, an FPC
\* absence notice, the threshold reason and the summary, in this order
C24_Witness ==
    /\ gov.exists
    /\ \E i \in 1..Len(gov.rows) :
          LET rs == Reasons(gov.rows[i])
          IN  /\ Len(rs) = 4
              /\ rs[1].msg = "DQC not admissible: "
              /\ rs[2].msg = "FPC class not found in artifact (proceeding conservatively)."
              /\ rs[3].msg \in ThresholdMessages
              /\ rs[4].msg = "Adjustment NOT permitted (conservative policy)."

\* the (entity_id, applied, mode) combination of a row
TraceCombo(row) == <<row["entity_id"], row["ral_applied"], row["ral_mode"]>>

\* C25. The RAL trace table is the deduplication of the RAL output: after a
\* RAL run it has exactly one row per distinct (entity_id, applied, mode)
\* combination of the RAL output and no other row, and every composite key of
\* the forecast table appears in it exactly once.
C25_TraceIsDeduplication ==
    RalOk =>
        /\ \A i \in 1..Len(ral.rows) :
              Cardinality({j \in 1..Len(trace.rows) :
                              TraceCombo(trace.rows[j]) = TraceCombo(ral.rows[i])}) = 1
        /\ \A j \in 1..Len(trace.rows) :
              \E i \in 1..Len(ral.rows) :
                  TraceCombo(ral.rows[i]) = TraceCombo(trace.rows[j])
        /\ \A i \in 1..Len(fcst.rows) :
              Cardinality({j \in 1..Len(trace.rows) :
                              trace.rows[j]["entity_id"] = fcst.rows[i]["entity_id"]}) = 1

\* C25 witness: a RAL run over a panel with several intervals per key, the
\* trace shorter than the output and holding an applied and a not applied key
C25_Witness ==
    /\ RalOk
    /\ Len(trace.rows) < Len(ral.rows)
    /\ \E i, j \in 1..Len(trace.rows) :
          /\ trace.rows[i]["ral_applied"] = Some(TRUE)
          /\ trace.rows[j]["ral_applied"] = Some(FALSE)

\* the minimum threshold and the fallback flag an invocation asks for: the
\* override when given, else 0.70; the flag or the default (off)
AskedHrTauMin(args) ==
    IF args.hr_tau_min = Null THEN 700000 ELSE Val(args.hr_tau_min)

AskedFallback(args) == args.allow_fallback \/ FALSE

\* the decision of a row was taken with threshold t: its threshold reason
\* quotes t, a permitted row meets t, a row with no structural reason is
\* permitted exactly when it meets t
DecidedUnder(row, t) ==
    LET rs == Reasons(row)
        hr_val == row["hr_tau"]
        meets == notna(hr_val) /\ Val(hr_val).num >= t * Val(hr_val).den
    IN  /\ notna(hr_val) => rs[Len(rs) - 1].arg[2] = t
        /\ Val(row["allow_adjustment"]) => meets
        /\ Len(rs) = 2 => (Val(row["allow_adjustment"]) = meets)

\* C26. Policy overrides: a successful governance run invoked with args
\* decides every row under the override threshold when one is given and under
\* 0.70 otherwise, records (override flag or default) as the fallback flag of
\* every row, and writes a policy descriptor with exactly these two values.
C26_PolicyOverrides ==
    [][\A args \in GovArgs :
          (Govern(args) /\ last'.result = "ok")
             => /\ policy'.hr_tau_min = AskedHrTauMin(args)
                /\ policy'.allow_fallback_default = AskedFallback(args)
                /\ \A i \in 1..Len(gov'.rows) :
                      /\ DecidedUnder(gov'.rows[i], AskedHrTauMin(args))
                      /\ gov'.rows[i]["allow_fallback"] = Some(AskedFallback(args))]_vars

\* C26 witness: a run under the override 0.65 with the fallback flag set: the
\* descriptor records both and a row with hit rate 0.65 is permitted
C26_Witness ==
    /\ GovernOk
    /\ policy.hr_tau_min = 650000
    /\ policy.allow_fallback_default
    /\ \E i \in 1..Len(gov.rows) :
          /\ gov.rows[i]["hr_tau"] = Frac(650000)
          /\ gov.rows[i]["allow_adjustment"] = Some(TRUE)
          /\ gov.rows[i]["allow_fallback"] = Some(TRUE)

\* where the structural table tbl first holds the label that a decision row
\* records in column col for its scope; 0 when it holds none
FirstSeen(tbl, col, row) ==
    LET at == {k \in 1..Len(tbl.rows) :
                  /\ tbl.rows[k]["forecast_entity_id"] = row["forecast_entity_id"]
                  /\ tbl.rows[k][col] = row[col]}
    IN  IF at = {} THEN 0 ELSE MinOf(at)

\* row a was seen no later than row b when the decisions were collected: the
\* joins go through the DQC rows of the scope, for each through its FPC rows,
\* for each through its FAS rows
SeenBefore(a, b) ==
    LET pa == <<FirstSeen(dqc, "dqc_class", a), FirstSeen(fpc, "fpc_class", a),
                FirstSeen(fas, "fas_class", a)>>
        pb == <<FirstSeen(dqc, "dqc_class", b), FirstSeen(fpc, "fpc_class", b),
                FirstSeen(fas, "fas_class", b)>>
    IN  \/ pa[1] < pb[1]
        \/ pa[1] = pb[1] /\ pa[2] < pb[2]
        \/ pa[1] = pb[1] /\ pa[2] = pb[2] /\ pa[3] <= pb[3]

\* C27. The decision table is emitted ordered by entity-scope key ascending,
\* whatever the order of the inputs, and the sort is stable: rows of the same
\* key stay in the order in which they were collected.
C27_SortedByKey ==
    /\ gov.exists =>
          \A i, j \in 1..Len(gov.rows) :
              i < j => ~StrLess(FeOf(gov.rows[j]), FeOf(gov.rows[i]))
    /\ GovernOk =>
          \A i, j \in 1..Len(gov.rows) :
              (i < j /\ FeOf(gov.rows[i]) = FeOf(gov.rows[j]))
                 => SeenBefore(gov.rows[i], gov.rows[j])

\* C27 witness: a decision table with two rows of one key that differ in
\* their recorded DQC label, and a row of a greater key after them
C27_Witness ==
    /\ GovernOk
    /\ \E i, j, k \in 1..Len(gov.rows) :
          /\ i < j /\ j < k
          /\ FeOf(gov.rows[i]) = FeOf(gov.rows[j])
          /\ gov.rows[i]["dqc_class"] # gov.rows[j]["dqc_class"]
          /\ StrLess(FeOf(gov.rows[j]), FeOf(gov.rows[k]))

\* the entity scopes the decision table holds
Decided == {FeOf(gov.rows[i]) : i \in 1..Len(gov.rows)}

\* the entity scopes the structural tables hold
StructuralScopes ==
    {Val(dqc.rows[i]["forecast_entity_id"]) : i \in 1..Len(dqc.rows)}
    \cup {Val(fpc.rows[i]["forecast_entity_id"]) : i \in 1..Len(fpc.rows)}
    \cup {Val(fas.rows[i]["forecast_entity_id"]) : i \in 1..Len(fas.rows)}

\* C28. The entity scopes that receive a decision are exactly the scopes of
\* the composite keys present in all three metric tables: a scope found only
\* in the DQC/FPC/FAS tables, or whose keys are missing from a metric table,
\* gets no decision row, and the rows of a scope without a decision are served
\* from baseline.
C28_DecidedScopes ==
    /\ GovernOk => Decided = Aggregated
    /\ ServeOk =>
          \A i \in 1..Len(served.rows) :
              ~HasDecision(ScopeOf(Val(served.rows[i]["entity_id"])))
                 => /\ served.rows[i]["served_source"] = Some("baseline")
                    /\ served.rows[i]["y_served"] = served.rows[i]["y_pred"]

\* C28 witness: scope B is in the structural tables and in the forecast panel
\* but one metric table has no key of it: no decision row, served from baseline
C28_Witness ==
    /\ ServeOk
    /\ EntB \in StructuralScopes
    /\ EntB \notin Aggregated
    /\ ~HasDecision(EntB)
    /\ HasDecision(EntA)
    /\ \E i \in 1..Len(served.rows) :
          /\ ScopeOf(Val(served.rows[i]["entity_id"])) = EntB
          /\ served.rows[i]["served_source"] = Some("baseline")

-----------------------------------------------------------------------------
(* Structural tables under every accepted class-column alias *)

\* DQC tables whose class column goes by each accepted alias, with a column
\* that the metrics also have
DqcAliased ==
    {ClassTable(c, <<"nsl">>, <<<<EntA, l>>, <<EntB, Some(Str_OK)>>>>) :
        c \in Range(DqcClassCandidates), l \in {Some(Str_OK), Some(Str_BLOCK)}}

\* FPC tables whose class column goes by each accepted alias; ud is also a
\* column of the metrics
FpcAliased ==
    {ClassTable(c, <<"ud">>, <<<<EntA, l>>, <<EntB, Some(Str_OK)>>>>) :
        c \in Range(FpcClassCandidates), l \in {Some(Str_OK), Some(Str_BLOCK)}}

InitAlias ==
    InitWith({Scaffold(<<KeySA, KeySB>>, 1, 10)},
             {HrTable(<<<<KeySB, Some(650000)>>, <<KeySA, Some(750000)>>>>)},
             DqcAliased, FpcAliased, MaxGovRuns)

\* C29. Every decision row records as dqc_class and fpc_class the labels of
\* its entity's DQC row and FPC row, the ones the admissibility evaluation
\* read, under every accepted alias of the class columns, also when both
\* tables use the same column name or share a column name with the metrics.
C29_RecordedLabels ==
    GovernOk =>
        \A i \in 1..Len(gov.rows) :
            BothRows(gov.rows[i])
               => /\ gov.rows[i]["dqc_class"] = DqcLabel(gov.rows[i])
                  /\ gov.rows[i]["fpc_class"] = FpcLabel(gov.rows[i])

\* the steps that write the artifacts a step requires as input
Producers ==
    [make        |-> {},
     contractify |-> {"make"},
     baseline    |-> {"contractify"},
     cwsl        |-> {"baseline"},
     hr_tau      |-> {"baseline"},
     nsl_ud      |-> {"baseline"},
     fas         |-> {"contractify", "baseline"},
     dqc         |-> {"contractify"},
     fpc         |-> {"baseline", "dqc"},
     govern      |-> {"cwsl", "hr_tau", "nsl_ud", "fas", "dqc", "fpc"},
     ral         |-> {"baseline", "govern"},
     serve       |-> {"baseline", "govern", "ral"}]

\* C30. In a runner invocation with FAS enabled every step is started only
\* after all steps that produce its required inputs have exited with code 0 in
\* the same invocation (DQC before FPC, the six diagnostics before governance,
\* governance before RAL, baseline, governance and RAL before serving), and no
\* step finds a required input missing.
C30_ProducersFirst ==
    (run.status # "idle" /\ ~run.no_fas)
       => \A i \in 1..Len(run.started) :
              /\ \A p \in Producers[run.started[i].step] :
                    \E j \in 1..(i - 1) :
                        run.started[j] = [step |-> p, result |-> "ok"]
              /\ run.started[i].result # "FileNotFoundError"

\* C30 witness: a complete invocation with FAS enabled: all twelve steps
\* started, serving last, every artifact on disk
C30_Witness ==
    /\ run.status = "ok"
    /\ ~run.no_fas
    /\ Len(run.started) = 12
    /\ Exited("fas", "ok")
    /\ Exited("serve", "ok")
    /\ fas.exists /\ gov.exists /\ ral.exists /\ served.exists

Next ==
    \/ \E args \in GovArgs : Govern(args)
    \/ Ral
    \/ Serve
    \/ Baseline

Spec == Init /\ [][Next]_vars

SpecGov == InitGov /\ [][Next]_vars

SpecAdm == InitAdm /\ [][Next]_vars

NextTbl == Next \/ Shuffle

SpecTbl == InitTbl /\ [][NextTbl]_vars

SpecKey == InitKey /\ [][Next]_vars

SpecJoin == InitJoin /\ [][Next]_vars

NextRun ==
    \/ \E no_fas \in BOOLEAN : RunnerStart(no_fas)
    \/ RunMake
    \/ RunContractify
    \/ RunBaseline
    \/ RunCwsl
    \/ RunHrTau
    \/ RunNslUd
    \/ RunFas
    \/ RunDqc
    \/ RunFpc
    \/ RunGovern
    \/ RunRal
    \/ RunServe

SpecRun == InitRun /\ [][NextRun]_vars

NextFault ==
    \/ Next
    \/ Damage
    \/ \E args \in GovArgs : GovernInterrupted(args)
    \/ RalInterrupted
    \/ ServeInterrupted

SpecFault == InitFault /\ [][NextFault]_vars

NextIso == Next \/ Perturb

SpecIso == InitIso /\ [][NextIso]_vars

SpecAlias == InitAlias /\ [][Next]_vars

====
